---- MODULE Spec2Model ----
(***************************************************************************)
(* Model of dbx-container's build-dependency orchestration engine          *)
(* (src/dbx_container/engine.py) and of the CLI handlers that drive it     *)
(* (src/dbx_container/cli.py).                                             *)
(*                                                                         *)
(* Python strings are TLA+ strings; the string methods the code uses       *)
(* (replace, lower, split, startswith, int(), format) are computed         *)
(* character by character.  Paths are "/"-joined strings.                  *)
(***************************************************************************)
EXTENDS Integers, Sequences, FiniteSets, TLC

\* Python's None, where a string is expected
None == "<None>"

\* Python's None, where a dict or an object is expected
Nothing == [none |-> TRUE]

-----------------------------------------------------------------------------
(* Python str methods *)

CharAt(s, i) == SubSeq(s, i, i)

StartsWith(s, p) == Len(p) <= Len(s) /\ SubSeq(s, 1, Len(p)) = p

EndsWith(s, p) == Len(p) <= Len(s) /\ SubSeq(s, Len(s) - Len(p) + 1, Len(s)) = p

\* p in s
Contains(s, p) == \E i \in 1..(Len(s) - Len(p) + 1) : SubSeq(s, i, i + Len(p) - 1) = p

\* s.replace(old, new): every non-overlapping occurrence, left to right
RECURSIVE Replace(_, _, _)
Replace(s, old, new) ==
    IF Len(s) < Len(old) THEN s
    ELSE IF StartsWith(s, old)
         THEN new \o Replace(SubSeq(s, Len(old) + 1, Len(s)), old, new)
         ELSE CharAt(s, 1) \o Replace(SubSeq(s, 2, Len(s)), old, new)

UpperChars == "ABCDEFGHIJKLMNOPQRSTUVWXYZ"
LowerChars == "abcdefghijklmnopqrstuvwxyz"

LowerChar(c) ==
    IF \E i \in 1..26 : CharAt(UpperChars, i) = c
    THEN CharAt(LowerChars, CHOOSE i \in 1..26 : CharAt(UpperChars, i) = c)
    ELSE c

\* s.lower()
RECURSIVE Lower(_)
Lower(s) == IF s = "" THEN "" ELSE LowerChar(CharAt(s, 1)) \o Lower(SubSeq(s, 2, Len(s)))

Digits == "0123456789"

IsDigit(c) == \E i \in 1..10 : CharAt(Digits, i) = c

DigitVal(c) == (CHOOSE i \in 1..10 : CharAt(Digits, i) = c) - 1

IsSpace(c) == c = " " \/ c = "\t" \/ c = "\n"

\* s.split(sep) for a one-character separator: the list of fields
RECURSIVE SplitOn(_, _)
SplitOn(s, sep) ==
    IF ~Contains(s, sep) THEN <<s>>
    ELSE LET i == CHOOSE k \in 1..Len(s) :
                     CharAt(s, k) = sep /\ \A j \in 1..(k - 1) : CharAt(s, j) # sep
         IN  <<SubSeq(s, 1, i - 1)>> \o SplitOn(SubSeq(s, i + 1, Len(s)), sep)

\* s.split(): fields separated by runs of whitespace, no empty field
RECURSIVE SplitWs(_)
SplitWs(s) ==
    IF s = "" THEN <<>>
    ELSE IF IsSpace(CharAt(s, 1)) THEN SplitWs(SubSeq(s, 2, Len(s)))
    ELSE LET n == CHOOSE k \in 1..Len(s) :
                     /\ \A j \in 1..k : ~IsSpace(CharAt(s, j))
                     /\ (k = Len(s) \/ IsSpace(CharAt(s, k + 1)))
         IN  <<SubSeq(s, 1, n)>> \o SplitWs(SubSeq(s, n + 1, Len(s)))

\* int(s) succeeds (decimal digits only; signs and blanks do not occur here)
IsInt(s) == s # "" /\ \A i \in 1..Len(s) : IsDigit(CharAt(s, i))

RECURSIVE ParseInt(_)
ParseInt(s) == IF s = "" THEN 0
               ELSE 10 * ParseInt(SubSeq(s, 1, Len(s) - 1)) + DigitVal(CharAt(s, Len(s)))

\* str(n) for n >= 0
RECURSIVE IntToStr(_)
IntToStr(n) == IF n < 10 THEN CharAt(Digits, n + 1)
               ELSE IntToStr(n \div 10) \o CharAt(Digits, (n % 10) + 1)

\* f"{n:02d}"
Format02d(n) == IF n < 10 THEN "0" \o IntToStr(n) ELSE IntToStr(n)

\* pathlib: a / b
PathJoin(a, b) == a \o "/" \o b

\* Path.is_absolute
IsAbsolute(path) == StartsWith(path, "/")

\* Path.relative_to(base) raises ValueError
relative_to_raises(path, base) == ~(path = base \/ StartsWith(path, base \o "/"))

\* Path.relative_to(base), when it does not raise
relative_to(path, base) ==
    IF path = base THEN "." ELSE SubSeq(path, Len(base) + 2, Len(path))

\* the process's working directory, Path.cwd(): the project root
Cwd == "/ws"

\* Path.absolute
Absolute(path) == IF IsAbsolute(path) THEN path ELSE PathJoin(Cwd, path)

-----------------------------------------------------------------------------
(* The image-type registry: RuntimeContainerEngine.__init__, self.image_types *)

\* insertion order of the dict's keys
ImageTypeOrder ==
    <<"gpu", "minimal", "minimal-gpu", "standard", "standard-gpu", "python", "python-gpu">>

\* the registry with gpu declared on top of standard-gpu, which is built on it
ImageTypes_gpu_on_standard_gpu ==
    [t \in {ImageTypeOrder[i] : i \in 1..Len(ImageTypeOrder)} |->
        CASE t = "gpu" ->
               [class |-> "GpuDockerfile", use_gpu_base |-> FALSE,
                depends_on |-> "standard-gpu", runtime_specific |-> FALSE]
          [] t = "minimal" ->
               [class |-> "MinimalUbuntuDockerfile", use_gpu_base |-> FALSE,
                depends_on |-> None, runtime_specific |-> FALSE]
          [] t = "minimal-gpu" ->
               [class |-> "MinimalUbuntuDockerfile", use_gpu_base |-> TRUE,
                depends_on |-> "gpu", runtime_specific |-> FALSE]
          [] t = "standard" ->
               [class |-> "StandardDockerfile", use_gpu_base |-> FALSE,
                depends_on |-> "minimal", runtime_specific |-> FALSE]
          [] t = "standard-gpu" ->
               [class |-> "StandardDockerfile", use_gpu_base |-> TRUE,
                depends_on |-> "minimal-gpu", runtime_specific |-> FALSE]
          [] t = "python" ->
               [class |-> "PythonDockerfile", use_gpu_base |-> FALSE,
                depends_on |-> "standard", runtime_specific |-> TRUE]
          [] t = "python-gpu" ->
               [class |-> "PythonDockerfile", use_gpu_base |-> TRUE,
                depends_on |-> "standard-gpu", runtime_specific |-> TRUE]]

ImageTypes ==
    [t \in {ImageTypeOrder[i] : i \in 1..Len(ImageTypeOrder)} |->
        CASE t = "gpu" ->
               [class |-> "GpuDockerfile", use_gpu_base |-> FALSE,
                depends_on |-> None, runtime_specific |-> FALSE]
          [] t = "minimal" ->
               [class |-> "MinimalUbuntuDockerfile", use_gpu_base |-> FALSE,
                depends_on |-> None, runtime_specific |-> FALSE]
          [] t = "minimal-gpu" ->
               [class |-> "MinimalUbuntuDockerfile", use_gpu_base |-> TRUE,
                depends_on |-> "gpu", runtime_specific |-> FALSE]
          [] t = "standard" ->
               [class |-> "StandardDockerfile", use_gpu_base |-> FALSE,
                depends_on |-> "minimal", runtime_specific |-> FALSE]
          [] t = "standard-gpu" ->
               [class |-> "StandardDockerfile", use_gpu_base |-> TRUE,
                depends_on |-> "minimal-gpu", runtime_specific |-> FALSE]
          [] t = "python" ->
               [class |-> "PythonDockerfile", use_gpu_base |-> FALSE,
                depends_on |-> "standard", runtime_specific |-> TRUE]
          [] t = "python-gpu" ->
               [class |-> "PythonDockerfile", use_gpu_base |-> TRUE,
                depends_on |-> "standard-gpu", runtime_specific |-> TRUE]]

\* the keys of a registry table in dict order
KeysInOrder(types) == SelectSeq(ImageTypeOrder, LAMBDA t : t \in DOMAIN types)

\* dict.get(key): None for a missing key
TypesGet(types, t) == IF t \in DOMAIN types THEN types[t] ELSE Nothing

-----------------------------------------------------------------------------
(* Per-runtime derivations *)

\* the exception a call raised, as a value
Raised == "<raised>"

\* sanitize_runtime_version
sanitize_runtime_version(version) == Replace(version, " ", "-")

\* get_python_versions_from_runtime: the .python of the returned versions,
\* or Raised when split()[0] indexes an empty list
get_python_versions_from_runtime(runtime) ==
    LET pv     == runtime.system_environment.python_version
        fields == SplitWs(pv)
    IN  IF pv # "" /\ fields = <<>> THEN Raised
        ELSE LET python_version == IF pv # "" THEN fields[1] ELSE "3.12"
                 parts == SplitOn(python_version, ".")
             IN  IF Contains(python_version, ".") /\ Len(parts) >= 2
                 THEN parts[1] \o "." \o parts[2]
                 ELSE python_version

\* the loop body of extract_os_version_from_runtime: the value a token returns,
\* or None when the loop goes on to the next token
OsTokenVersion(part) ==
    LET version_parts == SplitOn(part, ".")
    IN  IF /\ Contains(part, ".")
           /\ \E i \in 1..Len(part) : IsDigit(CharAt(part, i))
           /\ Len(version_parts) >= 2
           /\ IsInt(version_parts[1]) /\ IsInt(version_parts[2])
        THEN IntToStr(ParseInt(version_parts[1])) \o "." \o Format02d(ParseInt(version_parts[2]))
        ELSE None

\* extract_os_version_from_runtime without the except ValueError: continue
extract_os_version_from_runtime_no_except(runtime) ==
    LET os == runtime.system_environment.operating_system
        os_info == Lower(os)
        parts == SplitWs(os_info)
        dotted == SelectSeq(parts, LAMBDA part :
                      /\ Contains(part, ".")
                      /\ \E i \in 1..Len(part) : IsDigit(CharAt(part, i)))
    IN  IF os = "" THEN "24.04"
        ELSE IF Contains(os_info, "ubuntu") /\ dotted # <<>>
        THEN IF OsTokenVersion(dotted[1]) # None THEN OsTokenVersion(dotted[1]) ELSE Raised
        ELSE "24.04"

\* extract_os_version_from_runtime
extract_os_version_from_runtime(runtime) ==
    LET os == runtime.system_environment.operating_system
        os_info == Lower(os)
        parts == SplitWs(os_info)
        hits == SelectSeq(parts, LAMBDA part : OsTokenVersion(part) # None)
    IN  IF os = "" THEN "24.04"
        ELSE IF Contains(os_info, "ubuntu") /\ hits # <<>> THEN OsTokenVersion(hits[1])
        ELSE "24.04"

\* get_runtime_variations raises what get_python_versions_from_runtime raises
get_runtime_variations_raises(runtime) == get_python_versions_from_runtime(runtime) = Raised

\* get_runtime_variations: the list of variations (when it does not raise)
get_runtime_variations(runtime) ==
    LET os_version == extract_os_version_from_runtime(runtime)
        python == get_python_versions_from_runtime(runtime)
    IN  << [os_version |-> os_version,
            python_version |-> python,
            suffix |-> "ubuntu" \o Replace(os_version, ".", "") \o "-py" \o Replace(python, ".", ""),
            separator |-> "-"] >>

\* should_upgrade_os_version that keeps the OS version of the variation
should_upgrade_os_version_keeps_native(force_ubuntu_version, variation) ==
    IF force_ubuntu_version # None /\ force_ubuntu_version # ""
    THEN <<FALSE, force_ubuntu_version>>
    ELSE IF variation = Nothing THEN <<FALSE, "24.04">>
    ELSE <<FALSE, variation.os_version>>

\* should_upgrade_os_version: <<should_upgrade, os_version_to_use>>
should_upgrade_os_version(force_ubuntu_version, variation) ==
    IF force_ubuntu_version # None /\ force_ubuntu_version # ""
    THEN <<FALSE, force_ubuntu_version>>
    ELSE IF variation = Nothing THEN <<FALSE, "24.04">>
    ELSE IF variation.os_version # "24.04" THEN <<TRUE, "24.04">>
    ELSE <<FALSE, variation.os_version>>

\* get_dependency_image_reference (use_gpu_base is not read by the body)
get_dependency_image_reference(types, image_type, runtime, variation, registry) ==
    LET config == TypesGet(types, image_type)
    IN  IF config = Nothing \/ config.depends_on = None THEN "ubuntu:24.04"
        ELSE
        LET depends_on == config.depends_on
            dep_config == TypesGet(types, depends_on)
            base_dep_type == Replace(depends_on, "-gpu", "")
            dep_name == IF base_dep_type = "python" /\ variation # Nothing
                        THEN depends_on \o "-py" \o Replace(variation.python_version, ".", "")
                        ELSE depends_on
            image_ref == IF registry = None THEN "dbx-runtime:" \o dep_name
                         ELSE registry \o ":" \o dep_name
            runtime_clean ==
                Lower(Replace(Replace(Replace(runtime.version, " ", "-"), "(", ""), ")", ""))
        IN  IF dep_config # Nothing /\ dep_config.runtime_specific /\ runtime # Nothing
            THEN image_ref \o ":" \o runtime_clean
                     \o (IF variation # Nothing THEN "-" \o variation.suffix ELSE "")
                     \o (IF runtime.is_ml THEN "-ml" ELSE "")
            ELSE image_ref

-----------------------------------------------------------------------------
(* Artifact paths and contents *)

\* save_dockerfile: the path written
save_dockerfile(data_dir, runtime, image_type, variation) ==
    LET sanitized == sanitize_runtime_version(runtime.version)
        with_suffix == IF variation # Nothing
                       THEN sanitized \o variation.separator \o variation.suffix
                       ELSE sanitized
        runtime_version == IF runtime.is_ml THEN with_suffix \o "-ml" ELSE with_suffix
        runtime_dir == PathJoin(PathJoin(data_dir, image_type), runtime_version)
    IN  PathJoin(runtime_dir, "Dockerfile")

\* generate_requirements_txt: the path written
generate_requirements_txt(data_dir, runtime, image_type, variation) ==
    LET sanitized == sanitize_runtime_version(runtime.version)
        with_suffix == IF variation # Nothing
                       THEN sanitized \o variation.separator \o variation.suffix
                       ELSE sanitized
        runtime_version == IF runtime.is_ml THEN with_suffix \o "-ml" ELSE with_suffix
        runtime_dir == PathJoin(PathJoin(data_dir, image_type), runtime_version)
    IN  PathJoin(runtime_dir, "requirements.txt")

\* save_runtime_metadata with a directory name that leaves out the ML flag
save_runtime_metadata_without_ml(data_dir, runtime, image_type, variation) ==
    LET sanitized == sanitize_runtime_version(runtime.version)
        runtime_version == IF variation # Nothing
                           THEN sanitized \o variation.separator \o variation.suffix
                           ELSE sanitized
        runtime_dir == PathJoin(PathJoin(data_dir, image_type), runtime_version)
    IN  PathJoin(runtime_dir, "runtime_metadata.json")

\* save_runtime_metadata: the path written
save_runtime_metadata(data_dir, runtime, image_type, variation) ==
    LET sanitized == sanitize_runtime_version(runtime.version)
        with_suffix == IF variation # Nothing
                       THEN sanitized \o variation.separator \o variation.suffix
                       ELSE sanitized
        runtime_version == IF runtime.is_ml THEN with_suffix \o "-ml" ELSE with_suffix
        runtime_dir == PathJoin(PathJoin(data_dir, image_type), runtime_version)
    IN  PathJoin(runtime_dir, "runtime_metadata.json")

\* the requirements.txt document
RequirementsContent(runtime) == [kind |-> "requirements", version |-> runtime.version]

\* the runtime_metadata.json document (save_runtime_metadata)
MetadataContent(runtime, variation) ==
    [kind |-> "metadata",
     version |-> runtime.version,
     is_ml |-> runtime.is_ml,
     is_lts |-> runtime.is_lts,
     system_environment |-> runtime.system_environment,
     variation |-> IF variation # Nothing
                   THEN [os_version |-> variation.os_version,
                         python_version |-> variation.python_version,
                         suffix |-> variation.suffix]
                   ELSE Nothing]

\* the FROM image each image class renders (the class constructors in images/)
BaseImageOf(class, use_gpu_base, base_image, ubuntu_version) ==
    CASE class = "GpuDockerfile" ->
           "nvidia/cuda:12.8.1-cudnn-runtime-ubuntu" \o Replace("24.04", ".", "")
      [] class = "MinimalUbuntuDockerfile" ->
           IF base_image # None THEN base_image
           ELSE IF use_gpu_base THEN "dbx-runtime:gpu"
           ELSE "ubuntu:" \o (IF ubuntu_version # None THEN ubuntu_version ELSE "24.04")
      [] class = "StandardDockerfile" ->
           IF base_image # None THEN base_image
           ELSE IF use_gpu_base THEN "dbx-runtime:minimal-gpu" ELSE "dbx-runtime:minimal"
      [] class = "PythonDockerfile" ->
           IF base_image # None THEN base_image
           ELSE IF use_gpu_base THEN "dbx-runtime:standard-gpu" ELSE "dbx-runtime:standard"

BaseImageTypes == {"minimal", "minimal-gpu", "standard", "standard-gpu"}

RuntimeSpecificTypes(types) == SelectSeq(KeysInOrder(types), LAMBDA t : types[t].runtime_specific)

\* a list from its last element to its first
Reverse(seq) == [i \in 1..Len(seq) |-> seq[Len(seq) + 1 - i]]

\* NonRuntimeTypes with the image types taken from the last to the first
NonRuntimeTypes_reversed(types) == Reverse(SelectSeq(KeysInOrder(types), LAMBDA t : ~types[t].runtime_specific))

NonRuntimeTypes(types) == SelectSeq(KeysInOrder(types), LAMBDA t : ~types[t].runtime_specific)

IsRuntimeSpecific(types, t) == t \in DOMAIN types /\ types[t].runtime_specific

\* generate_dockerfile_for_image_type raises by itself: without a variation the
\* python version is taken from the runtime
generate_dockerfile_raises(types, runtime, image_type, variation) ==
    /\ IsRuntimeSpecific(types, image_type)
    /\ variation = Nothing
    /\ get_python_versions_from_runtime(runtime) = Raised

\* generate_dockerfile_for_image_type: the rendered Dockerfile, as the values
\* its text depends on
generate_dockerfile_for_image_type(types, force_ubuntu_version, data_dir, runtime, image_type, config, variation, registry) ==
    LET base_image == IF config.depends_on # None
                      THEN get_dependency_image_reference(types, image_type, runtime,
                                                          variation, registry)
                      ELSE None
        versions == IF IsRuntimeSpecific(types, image_type)
                    THEN IF variation # Nothing THEN variation.python_version
                         ELSE get_python_versions_from_runtime(runtime)
                    ELSE None
        upgrade == should_upgrade_os_version(force_ubuntu_version, variation)
        ubuntu_version ==
            IF image_type \in BaseImageTypes /\ variation # Nothing
            THEN IF upgrade[1] THEN upgrade[2]
                 ELSE IF variation.os_version # "24.04" THEN variation.os_version
                 ELSE upgrade[2]
            ELSE None
        requirements_abs_path ==
            generate_requirements_txt(data_dir, runtime, image_type, variation)
        requirements_path ==
            IF IsRuntimeSpecific(types, image_type)
            THEN IF IsAbsolute(requirements_abs_path)
                    /\ ~relative_to_raises(requirements_abs_path, Cwd)
                 THEN relative_to(requirements_abs_path, Cwd)
                 ELSE requirements_abs_path
            ELSE None
    IN  [kind |-> "dockerfile",
         image_type |-> image_type,
         base_image |-> BaseImageOf(config.class, config.use_gpu_base, base_image, ubuntu_version),
         ubuntu_version |-> ubuntu_version,
         python_version |-> versions,
         requirements_path |-> requirements_path,
         runtime_version |-> IF IsRuntimeSpecific(types, image_type)
                             THEN sanitize_runtime_version(runtime.version) ELSE None]

\* the placeholder runtime of the base-image builds
dummy_runtime(os_version) ==
    [version |-> "generic", release_date |-> 0, is_ml |-> FALSE, is_lts |-> FALSE,
     system_environment |-> [operating_system |-> "Ubuntu " \o os_version \o " LTS",
                             python_version |-> "N/A"]]

-----------------------------------------------------------------------------
(* build_all_images_for_runtime and build_non_runtime_specific_images, as     *)
(* functions of the point at which each generation raises                     *)

\* where the generation of one (runtime, image type, variation) raises:
\*   requirements    - generate_requirements_txt (nothing written yet)
\*   render          - the image class, after requirements.txt was written
\*   save_dockerfile - writing the Dockerfile
\*   save_metadata   - writing runtime_metadata.json, after the Dockerfile
FailPoints == {"none", "requirements", "render", "save_dockerfile", "save_metadata"}

Write(path, content) == [path |-> path, content |-> content]

\* the directory name of an OS-specific base image
OsDirName(os_version_to_use) ==
    IF os_version_to_use = "24.04" THEN "latest"
    ELSE "ubuntu" \o Replace(os_version_to_use, ".", "")

\* the base-image loop of build_all_images_for_runtime (for one variation): the
\* Dockerfile each base image type gets when its generation does not raise
OsBaseImageSteps(engine, registry, variation) ==
    LET upgrade == should_upgrade_os_version(engine.force_ubuntu_version, variation)
        os_version_to_use == upgrade[2]
        runtime_os == variation.os_version
        needed == runtime_os # "24.04"
                    \/ (engine.force_ubuntu_version # None /\ engine.force_ubuntu_version # "")
        one(image_type) ==
            IF ~needed \/ image_type \notin DOMAIN engine.image_types
            THEN <<>>
            ELSE << [image_type |-> image_type,
                     dockerfile |->
                        Write(PathJoin(PathJoin(PathJoin(engine.data_dir, image_type),
                                                OsDirName(os_version_to_use)), "Dockerfile"),
                              generate_dockerfile_for_image_type(
                                  engine.image_types, engine.force_ubuntu_version,
                                  engine.data_dir, dummy_runtime(os_version_to_use), image_type,
                                  engine.image_types[image_type], variation,
                                  registry))] >>
    IN  one("minimal") \o one("minimal-gpu") \o one("standard") \o one("standard-gpu")

\* the try body of the runtime-specific loop for one (image type, variation): the
\* three files it writes when nothing raises
RuntimeImageSteps(engine, registry, runtime, image_type, variation) ==
    [image_type |-> image_type,
     requirements |->
        Write(generate_requirements_txt(engine.data_dir, runtime, image_type, variation),
              RequirementsContent(runtime)),
     dockerfile |->
        Write(save_dockerfile(engine.data_dir, runtime, image_type, variation),
              generate_dockerfile_for_image_type(
                  engine.image_types, engine.force_ubuntu_version, engine.data_dir,
                  runtime, image_type, engine.image_types[image_type], variation,
                  registry)),
     metadata |->
        Write(save_runtime_metadata(engine.data_dir, runtime, image_type, variation),
              MetadataContent(runtime, variation))]

RECURSIVE Flatten(_)
Flatten(seqs) == IF seqs = <<>> THEN <<>> ELSE Head(seqs) \o Flatten(Tail(seqs))

\* every generation build_all_images_for_runtime attempts for a runtime, in order
\* (given that get_runtime_variations did not raise)
RuntimeSteps(engine, registry, runtime) ==
    LET variations == get_runtime_variations(runtime)
        types == RuntimeSpecificTypes(engine.image_types)
    IN  [base |-> Flatten([v \in 1..Len(variations) |->
                              OsBaseImageSteps(engine, registry, variations[v])]),
         py   |-> Flatten([i \in 1..Len(types) |->
                     Flatten([v \in 1..Len(variations) |->
                        <<RuntimeImageSteps(engine, registry, runtime, types[i],
                                            variations[v])>>])])]

\* the files the try body writes before the step named by fail_point raises
RuntimeImageWrites(step, fail_point) ==
    CASE fail_point = "requirements" -> <<>>
      [] fail_point = "render" -> <<step.requirements>>
      [] fail_point = "save_dockerfile" -> <<step.requirements>>
      [] fail_point = "save_metadata" -> <<step.requirements, step.dockerfile>>
      [] OTHER -> <<step.requirements, step.dockerfile, step.metadata>>

\* RuntimeImagePaths with each path recorded as soon as its file is saved
RuntimeImagePaths_recorded_when_saved(step, fail_point) ==
    CASE fail_point = "none" -> <<step.dockerfile.path, step.metadata.path>>
      [] fail_point = "save_metadata" -> <<step.dockerfile.path>>
      [] OTHER -> <<>>

\* what the try body appends to generated_files[image_type]
RuntimeImagePaths(step, fail_point) ==
    IF fail_point = "none" THEN <<step.dockerfile.path, step.metadata.path>> ELSE <<>>

\* build_all_images_for_runtime with the exception of a generation ending the
\* loop over the image types instead of the one iteration
build_all_images_for_runtime_first_failure_ends_loop(steps, plan) ==
    LET failing == {i \in 1..Len(steps.py) : plan.py[steps.py[i].image_type] # "none"}
        last == IF failing = {} THEN Len(steps.py)
                ELSE CHOOSE i \in failing : \A j \in failing : i <= j
        ran == SubSeq(steps.py, 1, last)
        of_type(t) == SelectSeq(ran, LAMBDA st : st.image_type = t)
    IN  [writes |->
            [i \in 1..Len(steps.base) |-> steps.base[i].dockerfile]
            \o Flatten([i \in 1..Len(ran) |->
                          RuntimeImageWrites(ran[i], plan.py[ran[i].image_type])]),
         generated_files |->
            [t \in {steps.py[i].image_type : i \in 1..Len(steps.py)} |->
                Flatten([i \in 1..Len(of_type(t)) |->
                            RuntimeImagePaths(of_type(t)[i], plan.py[t])])]]

\* build_all_images_for_runtime: the files it writes, in order, and the
\* generated_files it returns.
\* plan.base: the base image types whose generation raises;
\* plan.py[t]: where the generation of runtime-specific type t raises.
build_all_images_for_runtime(steps, plan) ==
    LET base_kept == SelectSeq(steps.base, LAMBDA b : b.image_type \notin plan.base)
        of_type(t) == SelectSeq(steps.py, LAMBDA st : st.image_type = t)
    IN  [writes |->
            [i \in 1..Len(base_kept) |-> base_kept[i].dockerfile]
            \o Flatten([i \in 1..Len(steps.py) |->
                          RuntimeImageWrites(steps.py[i], plan.py[steps.py[i].image_type])]),
         generated_files |->
            [t \in {steps.py[i].image_type : i \in 1..Len(steps.py)} |->
                Flatten([i \in 1..Len(of_type(t)) |->
                            RuntimeImagePaths(of_type(t)[i], plan.py[t])])]]

\* every generation build_non_runtime_specific_images attempts, in order: the
\* Dockerfile each non-runtime-specific image type gets when nothing raises
NonRuntimeSteps(engine, registry) ==
    LET types == NonRuntimeTypes(engine.image_types)
    IN  [i \in 1..Len(types) |->
            [image_type |-> types[i],
             dockerfile |->
                Write(PathJoin(PathJoin(PathJoin(engine.data_dir, types[i]), "latest"),
                               "Dockerfile"),
                      generate_dockerfile_for_image_type(
                          engine.image_types, engine.force_ubuntu_version, engine.data_dir,
                          dummy_runtime("24.04"), types[i], engine.image_types[types[i]],
                          Nothing, registry))]]

\* build_non_runtime_specific_images: the files it writes and the generated_files
\* it returns.  fail: the image types whose generation raises.
build_non_runtime_specific_images(steps, fail) ==
    LET kept == SelectSeq(steps, LAMBDA st : st.image_type \notin fail)
        path(t) == steps[CHOOSE i \in 1..Len(steps) : steps[i].image_type = t].dockerfile.path
    IN  [writes |-> [i \in 1..Len(kept) |-> kept[i].dockerfile],
         generated_files |-> [t \in {steps[i].image_type : i \in 1..Len(steps)} |->
                                 IF t \in fail THEN <<>> ELSE <<path(t)>>]]

\* the file system after a sequence of writes (a later write replaces the file)
RECURSIVE ApplyWrites(_, _)
ApplyWrites(files, writes) ==
    IF writes = <<>> THEN files
    ELSE LET w == Head(writes)
         IN  ApplyWrites([p \in DOMAIN files \cup {w.path} |->
                             IF p = w.path THEN w.content ELSE files[p]],
                         Tail(writes))

PathsOf(writes) == {writes[i].path : i \in 1..Len(writes)}

-----------------------------------------------------------------------------
(* The catalog provider (data/scraper.py) *)

\* stable sort of a list by descending key: sorted(..., key=key, reverse=True)
SortDesc(seq, key(_)) ==
    LET n == Len(seq)
        \* the elements that end up before element i: those with a larger key, and
        \* those with an equal key that came earlier
        pos(i) == 1 + Cardinality({j \in 1..n : \/ key(seq[j]) > key(seq[i])
                                                \/ (key(seq[j]) = key(seq[i]) /\ j < i)})
    IN  [p \in 1..n |-> seq[CHOOSE i \in 1..n : pos(i) = p]]

\* _parse_runtime: the base runtime of a release, then its ML variant
parse_runtime(release) ==
    LET base == [version |-> release.version, release_date |-> release.release_date,
                 is_ml |-> FALSE, is_lts |-> release.is_lts,
                 system_environment |-> release.system_environment]
    IN  IF release.has_ml THEN <<base, [base EXCEPT !.is_ml = TRUE]>> ELSE <<base>>

\* get_supported_runtimes
get_supported_runtimes(releases) ==
    SortDesc(Flatten([i \in 1..Len(releases) |-> parse_runtime(releases[i])]),
             LAMBDA r : r.release_date)

-----------------------------------------------------------------------------
(* Run-level functions of the engine *)

\* an int parameter left at None
NoCount == -1

\* the distinct elements of a list, in order of first occurrence
RECURSIVE Distinct(_)
Distinct(seq) ==
    IF seq = <<>> THEN <<>>
    ELSE LET rest == Distinct(SubSeq(seq, 1, Len(seq) - 1))
             x == seq[Len(seq)]
         IN  IF \E i \in 1..Len(rest) : rest[i] = x THEN rest ELSE Append(rest, x)

\* list[:count]
Take(seq, count) ==
    IF count >= 0 THEN SubSeq(seq, 1, IF count < Len(seq) THEN count ELSE Len(seq))
    ELSE SubSeq(seq, 1, IF Len(seq) + count > 0 THEN Len(seq) + count ELSE 0)

\* _filter_latest_lts_runtimes sorting the version groups oldest first
filter_latest_lts_runtimes_oldest_first(runtimes, count, skip_ml_variants) ==
    LET lts == SelectSeq(runtimes, LAMBDA r : r.is_lts)
        version_keys == Distinct([i \in 1..Len(lts) |-> lts[i].version])
        group(v) == SelectSeq(lts, LAMBDA r : r.version = v)
        sorted_versions == SortDesc(version_keys, LAMBDA v : 0 - group(v)[1].release_date)
        latest_versions == Take(sorted_versions, count)
        kept(v) == IF skip_ml_variants THEN SelectSeq(group(v), LAMBDA r : ~r.is_ml)
                   ELSE group(v)
    IN  Flatten([i \in 1..Len(latest_versions) |-> kept(latest_versions[i])])

\* _filter_latest_lts_runtimes returning every variant whatever the ML policy
filter_latest_lts_runtimes_keeps_ml(runtimes, count, skip_ml_variants) ==
    LET lts == SelectSeq(runtimes, LAMBDA r : r.is_lts)
        version_keys == Distinct([i \in 1..Len(lts) |-> lts[i].version])
        group(v) == SelectSeq(lts, LAMBDA r : r.version = v)
        sorted_versions == SortDesc(version_keys, LAMBDA v : group(v)[1].release_date)
        latest_versions == Take(sorted_versions, count)
    IN  Flatten([i \in 1..Len(latest_versions) |-> group(latest_versions[i])])

\* _filter_latest_lts_runtimes
filter_latest_lts_runtimes(runtimes, count, skip_ml_variants) ==
    LET lts == SelectSeq(runtimes, LAMBDA r : r.is_lts)
        version_keys == Distinct([i \in 1..Len(lts) |-> lts[i].version])
        group(v) == SelectSeq(lts, LAMBDA r : r.version = v)
        sorted_versions == SortDesc(version_keys, LAMBDA v : group(v)[1].release_date)
        latest_versions == Take(sorted_versions, count)
        kept(v) == IF skip_ml_variants THEN SelectSeq(group(v), LAMBDA r : ~r.is_ml)
                   ELSE group(v)
    IN  Flatten([i \in 1..Len(latest_versions) |-> kept(latest_versions[i])])

\* the key of a runtime in all_generated_files
runtime_key(runtime) == runtime.version \o (IF runtime.is_ml THEN "_ml" ELSE "")

\* dict[key] = value on a dict kept as the list of its items
DictSet(dict, key, value) ==
    IF \E i \in 1..Len(dict) : dict[i].key = key
    THEN [i \in 1..Len(dict) |-> IF dict[i].key = key THEN [key |-> key, value |-> value]
                                 ELSE dict[i]]
    ELSE Append(dict, [key |-> key, value |-> value])

DictKeys(dict) == {dict[i].key : i \in 1..Len(dict)}

DictGet(dict, key) == dict[CHOOSE i \in 1..Len(dict) : dict[i].key = key].value

\* every path held by a generated_files dict
GeneratedPaths(generated_files) ==
    UNION {{generated_files[t][i] : i \in 1..Len(generated_files[t])} :
              t \in DOMAIN generated_files}

\* every path held by all_generated_files
AllGeneratedPaths(dict) == UNION {GeneratedPaths(dict[i].value) : i \in 1..Len(dict)}

RECURSIVE SumLens(_, _)
SumLens(generated_files, types) ==
    IF types = {} THEN 0
    ELSE LET t == CHOOSE u \in types : TRUE
         IN  Len(generated_files[t]) + SumLens(generated_files, types \ {t})

RECURSIVE TotalFiles(_)
TotalFiles(dict) ==
    IF dict = <<>> THEN 0
    ELSE SumLens(Head(dict).value, DOMAIN Head(dict).value) + TotalFiles(Tail(dict))

\* save_build_summary raises: a recorded path is not below workspace_root
save_build_summary_raises(engine, dict) ==
    \E path \in AllGeneratedPaths(dict) : relative_to_raises(Absolute(path), engine.workspace_root)

\* save_build_summary: the build_summary.json document
save_build_summary(engine, dict) ==
    [kind |-> "summary",
     total_runtimes |-> Len(dict),
     image_types |-> KeysInOrder(engine.image_types),
     total_files_generated |-> TotalFiles(dict),
     build_details |->
        [i \in 1..Len(dict) |->
            [key |-> dict[i].key,
             value |-> [t \in DOMAIN dict[i].value |->
                          [j \in 1..Len(dict[i].value[t]) |->
                              relative_to(Absolute(dict[i].value[t][j]),
                                          engine.workspace_root)]]]]]

SummaryPath(engine) == PathJoin(engine.data_dir, "build_summary.json")

-----------------------------------------------------------------------------
(* Bounds and inputs *)

\* the number of releases the documentation page lists
MaxReleases == 2

\* the number of generations that raise in one run
MaxFailures == 1

Env(os, python) == [operating_system |-> os, python_version |-> python]

Release(version, release_date, is_lts, has_ml, os, python) ==
    [version |-> version, release_date |-> release_date, is_lts |-> is_lts,
     has_ml |-> has_ml, system_environment |-> Env(os, python)]

\* the releases the documentation may list (release_date as a day number)
ReleasePool ==
    { Release("17.3 LTS", 5, TRUE,  TRUE,  "Ubuntu 24.04.3 LTS", "3.12.3"),
      Release("17.2",     5, FALSE, FALSE, "",                   ""),
      Release("16.4 LTS", 4, TRUE,  FALSE, "Ubuntu 24.04.2 LTS", "3.12.3"),
      Release("15.4 LTS", 3, TRUE,  TRUE,  "Ubuntu 22.04.4 LTS", "3.11.0"),
      Release("14.3 LTS", 3, TRUE,  FALSE, "Ubuntu 22.04.3 LTS", "3.10.12"),
      Release("13.3 LTS", 1, TRUE,  FALSE, "Ubuntu 22.04.2 LTS", " ") }

\* the lists of at most n distinct elements of a set
RECURSIVE ListsOf(_, _)
ListsOf(set, n) ==
    IF n = 0 THEN {<<>>}
    ELSE LET shorter == ListsOf(set, n - 1)
         IN  shorter \cup
             UNION {{Append(l, e) : e \in set \ {l[i] : i \in 1..Len(l)}} :
                       l \in {k \in shorter : Len(k) = n - 1}}

\* what the catalog provider can return
Catalogs == {get_supported_runtimes(releases) : releases \in ListsOf(ReleasePool, MaxReleases)}

\* RuntimeContainerEngine.__init__
RuntimeContainerEngine(data_dir, latest_lts_count, force_ubuntu_version, skip_ml_variants) ==
    [data_dir |-> data_dir,
     latest_lts_count |-> latest_lts_count,
     force_ubuntu_version |-> force_ubuntu_version,
     skip_ml_variants |-> skip_ml_variants,
     workspace_root |-> Cwd,
     image_types |-> ImageTypes]

LtsCounts == {NoCount, 1}
UbuntuVersions == {None, "22.04", "24.04"}

\* engines a caller of the library constructs: every filter and OS policy with
\* the default data directory, and the default policy with another directory
LibraryEngines ==
    {RuntimeContainerEngine("data", c, u, m) :
        c \in LtsCounts, u \in UbuntuVersions, m \in BOOLEAN}
    \cup {RuntimeContainerEngine("/tmp/out", NoCount, None, TRUE)}

\* the registry argument of run()
Registries == {None, "ghcr.io/acme/dbx-runtime"}

\* the argparse namespace of `build` (cli.py, setup_build_command)
BuildArgs(runtime_version, image_type, all_lts) ==
    [command |-> "build", output_dir |-> "data", runtime_version |-> runtime_version,
     image_type |-> image_type, registry |-> None, all_lts |-> all_lts, lts_count |-> 3]

\* the command lines: full builds, and targeted builds of a known or unknown
\* runtime version and of a known or unknown image type
CommandLines ==
    {BuildArgs(None, None, a) : a \in BOOLEAN}
    \cup {BuildArgs(v, t, FALSE) : v \in {"17.3 LTS", "99.9 LTS"},
                                   t \in {None, "python", "minimal", "dbfsfuse"}}
    \cup {BuildArgs(None, t, FALSE) : t \in {"python", "minimal", "dbfsfuse"}}

\* the runs in which generations may raise: the runs of this engine
FaultInjected == {RuntimeContainerEngine("data", NoCount, None, FALSE)}

\* the generations that may raise while one runtime is built: the base image
\* types that are built for it, and where each runtime-specific type raises
BaseTypesBuiltFor(engine, variation) ==
    IF variation.os_version # "24.04"
       \/ (engine.force_ubuntu_version # None /\ engine.force_ubuntu_version # "")
    THEN BaseImageTypes \cap DOMAIN engine.image_types
    ELSE {}

BaseTypesBuilt(engine, runtime) == BaseTypesBuiltFor(engine, get_runtime_variations(runtime)[1])

PlanFailures(plan) ==
    Cardinality(plan.base) + Cardinality({t \in DOMAIN plan.py : plan.py[t] # "none"})

NoFailure(engine) ==
    LET types == RuntimeSpecificTypes(engine.image_types)
    IN  [base |-> {}, py |-> [t \in {types[i] : i \in 1..Len(types)} |-> "none"]]

Plans(engine, runtime, budget) ==
    LET types == RuntimeSpecificTypes(engine.image_types)
    IN  IF budget <= 0 THEN {NoFailure(engine)}
        ELSE {plan \in [base : SUBSET BaseTypesBuilt(engine, runtime),
                        py : [{types[i] : i \in 1..Len(types)} -> FailPoints]] :
                PlanFailures(plan) <= budget}

\* the entries of failed for a plan
PlanFailed(who, plan) ==
    {<<who, t, "render">> : t \in plan.base}
    \cup {<<who, t, plan.py[t]>> : t \in {u \in DOMAIN plan.py : plan.py[u] # "none"}}

-----------------------------------------------------------------------------
(* The state *)

VARIABLES
    args,                 \* the command line (Nothing when the engine is used as a library)
    engine,               \* the RuntimeContainerEngine of the run
    registry,             \* the registry argument of the run
    phase,                \* the phase of the run that was completed last
    runtimes,             \* the local list of runtimes of the run
    built,                \* how many of them the runtime loop has processed
    all_generated_files,  \* the local dict of the run, as the list of its items
    files,                \* the file system: path -> document
    exit_code,            \* the exit status of the command (NoExit while it runs)
    written,              \* history: <<who, path>> for every file write of the run, who = 0
                          \*   for the non-runtime-specific build, k for runtimes[k]
    failed,               \* history: <<who, image type, fail point>> of generations that raised
    trace,                \* history: the phases entered, in order
    summary_writes,       \* history: how often build_summary.json was written
    call                  \* the last call of a single method of the engine, with its result

vars == <<args, engine, registry, phase, runtimes, built, all_generated_files, files,
          exit_code, written, failed, trace, summary_writes, call>>

NoFiles == [p \in {} |-> Nothing]

NoExit == -1

\* who writes build_summary.json, in written
SummaryWriter == -1

\* run_build_dockerfiles, lines 87-97: the engine the command constructs
CliEngine(a) ==
    RuntimeContainerEngine(a.output_dir, IF a.all_lts THEN NoCount ELSE a.lts_count,
                           None, TRUE)

Init ==
    /\ \/ /\ args = Nothing
          /\ engine \in LibraryEngines
          /\ registry \in (IF engine = RuntimeContainerEngine("data", 1, None, TRUE)
                           THEN Registries ELSE {None})
       \/ /\ args \in CommandLines
          /\ engine = CliEngine(args)
          /\ registry = args.registry
    /\ phase = "Init"
    /\ runtimes = <<>>
    /\ built = 0
    /\ all_generated_files = <<>>
    /\ files = NoFiles
    /\ exit_code = NoExit
    /\ written = {}
    /\ failed = {}
    /\ trace = <<"Init">>
    /\ summary_writes = 0
    /\ call = Nothing

\* the generations that may still raise in this run
FailureBudget == IF engine \in FaultInjected THEN MaxFailures - Cardinality(failed) ELSE 0

\* the command line asks for the full build (engine.run), cli.py line 165
FullBuild ==
    IF args = Nothing THEN TRUE
    ELSE args.runtime_version = None /\ args.image_type = None

Enter(p) == phase' = p /\ trace' = Append(trace, p)

\* FetchCatalog without the check for an empty catalog
FetchCatalog_no_empty_check ==
    /\ phase = "Init"
    /\ FullBuild
    /\ \E catalog \in Catalogs : runtimes' = catalog
    /\ Enter("FetchCatalog")
    /\ UNCHANGED <<call, args, engine, registry, built, all_generated_files, files, exit_code,
                   written, failed, summary_writes>>

\* build_all_images_for_all_runtimes, lines 852-858
FetchCatalog ==
    /\ phase = "Init"
    /\ FullBuild
    /\ \E catalog \in Catalogs :
        /\ runtimes' = catalog
        /\ IF catalog = <<>>
           THEN phase' = "Aborted" /\ trace' = trace \o <<"FetchCatalog", "Aborted">>
           ELSE Enter("FetchCatalog")
    /\ UNCHANGED <<call, args, engine, registry, built, all_generated_files, files, exit_code,
                   written, failed, summary_writes>>

\* build_all_images_for_all_runtimes, lines 860-868
FilterRuntimes ==
    /\ phase = "FetchCatalog"
    /\ runtimes' = IF engine.latest_lts_count # NoCount
                   THEN filter_latest_lts_runtimes(runtimes, engine.latest_lts_count,
                                                   engine.skip_ml_variants)
                   ELSE runtimes
    /\ Enter("FilterRuntimes")
    /\ UNCHANGED <<call, args, engine, registry, built, all_generated_files, files, exit_code,
                   written, failed, summary_writes>>

\* build_all_images_for_all_runtimes, lines 870-874
BuildNonRuntimeSpecific ==
    /\ phase = "FilterRuntimes"
    /\ \E steps \in {NonRuntimeSteps(engine, registry)},
          fail \in SUBSET {t \in DOMAIN engine.image_types :
                              ~engine.image_types[t].runtime_specific} :
        /\ Cardinality(fail) <= FailureBudget
        /\ LET r == build_non_runtime_specific_images(steps, fail)
           IN  /\ files' = ApplyWrites(files, r.writes)
               /\ written' = written \cup {<<0, p>> : p \in PathsOf(r.writes)}
               /\ all_generated_files' = DictSet(<<>>, "non_runtime_specific",
                                                 r.generated_files)
        /\ failed' = failed \cup {<<0, t, "render">> : t \in fail}
    /\ Enter("BuildNonRuntimeSpecific")
    /\ UNCHANGED <<call, args, engine, registry, runtimes, built, exit_code, summary_writes>>

\* one iteration of the runtime loop, lines 877-880
BuildRuntime ==
    /\ phase \in {"BuildNonRuntimeSpecific", "BuildRuntime"}
    /\ built < Len(runtimes)
    /\ LET runtime == runtimes[built + 1]
       IN  IF get_runtime_variations_raises(runtime)
           THEN /\ Enter("Crashed")
                /\ UNCHANGED <<built, all_generated_files, files, written, failed>>
           ELSE \E steps \in {RuntimeSteps(engine, registry, runtime)},
                   plan \in Plans(engine, runtime, FailureBudget) :
                  LET r == build_all_images_for_runtime(steps, plan)
                  IN  /\ files' = ApplyWrites(files, r.writes)
                      /\ written' = written \cup {<<built + 1, p>> : p \in PathsOf(r.writes)}
                      /\ all_generated_files' =
                            DictSet(all_generated_files, runtime_key(runtime),
                                    r.generated_files)
                      /\ failed' = failed \cup PlanFailed(built + 1, plan)
                      /\ built' = built + 1
                      /\ Enter("BuildRuntime")
    /\ UNCHANGED <<call, args, engine, registry, runtimes, exit_code, summary_writes>>

\* WriteSummary without waiting for the runtime loop to end
WriteSummary_before_loop_end ==
    /\ phase \in {"BuildNonRuntimeSpecific", "BuildRuntime"}
    /\ files' = ApplyWrites(files,
                    <<Write(SummaryPath(engine),
                            save_build_summary(engine, all_generated_files))>>)
    /\ written' = written \cup {<<SummaryWriter, SummaryPath(engine)>>}
    /\ summary_writes' = summary_writes + 1
    /\ Enter("WriteSummary")
    /\ UNCHANGED <<call, args, engine, registry, runtimes, built, all_generated_files, exit_code,
                   failed>>

\* build_all_images_for_all_runtimes, lines 882-883
WriteSummary ==
    /\ phase \in {"BuildNonRuntimeSpecific", "BuildRuntime"}
    /\ built = Len(runtimes)
    /\ IF save_build_summary_raises(engine, all_generated_files)
       THEN /\ Enter("Crashed")
            /\ UNCHANGED <<files, written, summary_writes>>
       ELSE /\ files' = ApplyWrites(files,
                            <<Write(SummaryPath(engine),
                                    save_build_summary(engine, all_generated_files))>>)
            /\ written' = written \cup {<<SummaryWriter, SummaryPath(engine)>>}
            /\ summary_writes' = summary_writes + 1
            /\ Enter("WriteSummary")
    /\ UNCHANGED <<call, args, engine, registry, runtimes, built, all_generated_files, exit_code,
                   failed>>

\* build_all_images_for_all_runtimes, lines 885-900
Finish ==
    /\ phase = "WriteSummary"
    /\ Enter("Done")
    /\ UNCHANGED <<call, args, engine, registry, runtimes, built, all_generated_files, files,
                   exit_code, written, failed, summary_writes>>

\* the position of the first runtime of a list with a version (0: not found)
IndexOfVersion(list, version) ==
    IF \E i \in 1..Len(list) : list[i].version = version
    THEN CHOOSE i \in 1..Len(list) :
            /\ list[i].version = version
            /\ \A j \in 1..(i - 1) : list[j].version # version
    ELSE 0

\* the three calls of a targeted build (cli.py lines 119-124 and 147-152):
\* generate, save_dockerfile and save_runtime_metadata, without a variation
TargetedWrites(runtime, image_type) ==
    LET step == RuntimeImageSteps(engine, args.registry, runtime, image_type, Nothing)
    IN  IF generate_dockerfile_raises(engine.image_types, runtime, image_type, Nothing)
        THEN <<>>
        ELSE IF IsRuntimeSpecific(engine.image_types, image_type)
        THEN <<step.requirements, step.dockerfile, step.metadata>>
        ELSE <<step.dockerfile, step.metadata>>

Exit(code) == exit_code' = code /\ phase' = "Exited" /\ trace' = Append(trace, "Exited")

\* run_build_dockerfiles with --runtime-version, cli.py lines 99-130
CliBuildRuntime ==
    /\ phase = "Init"
    /\ args # Nothing
    /\ ~FullBuild
    /\ args.runtime_version # None
    /\ \E catalog \in Catalogs :
        LET k == IndexOfVersion(catalog, args.runtime_version)
            target_runtime == catalog[k]
        IN  /\ runtimes' = catalog
            /\ IF k = 0
               THEN Exit(1) /\ UNCHANGED <<files, written>>
               ELSE IF args.image_type # None
               THEN IF TypesGet(engine.image_types, args.image_type) = Nothing
                    THEN Exit(1) /\ UNCHANGED <<files, written>>
                    ELSE LET writes == TargetedWrites(target_runtime, args.image_type)
                         IN  /\ files' = ApplyWrites(files, writes)
                             /\ written' = written \cup {<<k, q>> : q \in PathsOf(writes)}
                             /\ Exit(IF writes = <<>> THEN 1 ELSE 0)
               ELSE IF get_runtime_variations_raises(target_runtime)
                    THEN Exit(1) /\ UNCHANGED <<files, written>>
                    ELSE LET r == build_all_images_for_runtime(
                                      RuntimeSteps(engine, args.registry, target_runtime),
                                      NoFailure(engine))
                         IN  /\ files' = ApplyWrites(files, r.writes)
                             /\ written' = written \cup {<<k, q>> : q \in PathsOf(r.writes)}
                             /\ Exit(0)
    /\ UNCHANGED <<call, args, engine, registry, built, all_generated_files, failed, summary_writes>>

\* the loop of cli.py lines 145-154, from runtime k on
RECURSIVE TargetedLoop(_, _, _)
TargetedLoop(list, image_type, k) ==
    IF k > Len(list) THEN <<>>
    ELSE <<[who |-> k, writes |-> TargetedWrites(list[k], image_type)]>>
         \o TargetedLoop(list, image_type, k + 1)

\* run_build_dockerfiles with --image-type alone, cli.py lines 131-156
CliBuildImageType ==
    /\ phase = "Init"
    /\ args # Nothing
    /\ ~FullBuild
    /\ args.runtime_version = None
    /\ \E catalog \in Catalogs :
        /\ runtimes' = catalog
        /\ IF TypesGet(engine.image_types, args.image_type) = Nothing
           THEN Exit(1) /\ UNCHANGED <<files, written>>
           ELSE LET loop == TargetedLoop(catalog, args.image_type, 1)
                IN  /\ files' = ApplyWrites(files,
                                    Flatten([i \in 1..Len(loop) |-> loop[i].writes]))
                    /\ written' = written \cup
                          UNION {{<<loop[i].who, q>> : q \in PathsOf(loop[i].writes)} :
                                    i \in 1..Len(loop)}
                    /\ Exit(0)
    /\ UNCHANGED <<call, args, engine, registry, built, all_generated_files, failed, summary_writes>>

\* run_build_dockerfiles after engine.run, cli.py lines 157-180: an exception
\* of the run is caught and gives 1, a run that returned gives 0
CliReturn ==
    /\ args # Nothing
    /\ phase \in {"Done", "Aborted", "Crashed"}
    /\ Exit(IF phase = "Crashed" THEN 1 ELSE 0)
    /\ UNCHANGED <<call, args, engine, registry, runtimes, built, all_generated_files, files,
                   written, failed, summary_writes>>

Next ==
    \/ FetchCatalog
    \/ FilterRuntimes
    \/ BuildNonRuntimeSpecific
    \/ BuildRuntime
    \/ WriteSummary
    \/ Finish
    \/ CliBuildRuntime
    \/ CliBuildImageType
    \/ CliReturn

Spec == Init /\ [][Next]_vars

\* ENABLED <<BuildRuntime>>_vars: the loop has a runtime left (the iteration
\* then either raises or ends, whatever the generations do)
BuildRuntimeEnabled ==
    /\ phase \in {"BuildNonRuntimeSpecific", "BuildRuntime"}
    /\ built < Len(runtimes)

\* WF_vars(BuildRuntime), with ENABLED written out as BuildRuntimeEnabled
FairBuildRuntime == []<>(~BuildRuntimeEnabled) \/ []<><<BuildRuntime>>_vars

\* the run is one thread that keeps running: the loop takes its next iteration,
\* and the calls after the loop are made
FairSpec == Spec /\ FairBuildRuntime /\ WF_vars(WriteSummary) /\ WF_vars(Finish)

-----------------------------------------------------------------------------
(* Single methods of the engine, called on their own *)

\* the registry with an image type added whose parent is runtime-specific: the
\* DBFS FUSE image (images/dbfsfuse.py), built on the python image
ImageTypesWithDbfsFuse ==
    [t \in DOMAIN ImageTypes \cup {"dbfsfuse"} |->
        IF t = "dbfsfuse"
        THEN [class |-> "DbfsFuseDockerfileBuilder", use_gpu_base |-> FALSE,
              depends_on |-> "python", runtime_specific |-> TRUE]
        ELSE ImageTypes[t]]

\* the runtimes a caller can hold: those of the catalog
RuntimePool == UNION {{parse_runtime(r)[i] : i \in 1..Len(parse_runtime(r))} : r \in ReleasePool}

\* the variations a caller can pass for a runtime: none, or the one computed
VariationsFor(runtime) ==
    {Nothing} \cup
    (IF runtime = Nothing
     THEN {[os_version |-> "24.04", python_version |-> "3.12",
            suffix |-> "ubuntu2404-py312", separator |-> "-"]}
     ELSE IF get_runtime_variations_raises(runtime) THEN {}
     ELSE {get_runtime_variations(runtime)[1]})

InitCalls ==
    /\ args = Nothing
    /\ engine \in {[RuntimeContainerEngine("data", NoCount, None, TRUE)
                       EXCEPT !.image_types = types] :
                     types \in {ImageTypes, ImageTypesWithDbfsFuse}}
    /\ registry \in Registries
    /\ phase = "Init"
    /\ runtimes = <<>>
    /\ built = 0
    /\ all_generated_files = <<>>
    /\ files = NoFiles
    /\ exit_code = NoExit
    /\ written = {}
    /\ failed = {}
    /\ trace = <<"Init">>
    /\ summary_writes = 0
    /\ call = Nothing

\* engine.get_dependency_image_reference(image_type, runtime, variation, registry)
CallGetDependencyImageReference ==
    /\ call = Nothing
    /\ \E image_type \in DOMAIN engine.image_types \cup {"unknown"},
          runtime \in RuntimePool \cup {Nothing} :
        \E variation \in VariationsFor(runtime) :
            call' = [fn |-> "get_dependency_image_reference",
                     image_type |-> image_type,
                     runtime |-> runtime,
                     variation |-> variation,
                     result |-> get_dependency_image_reference(
                                    engine.image_types, image_type, runtime, variation,
                                    registry)]
    /\ UNCHANGED <<args, engine, registry, phase, runtimes, built, all_generated_files, files,
                   exit_code, written, failed, trace, summary_writes>>

NextCalls == CallGetDependencyImageReference

SpecCalls == InitCalls /\ [][NextCalls]_vars

-----------------------------------------------------------------------------
(* The full build run: order of the phases *)

\* the phases that may follow a phase of the full build run
PhaseSuccessors(p) ==
    CASE p = "Init" -> {"FetchCatalog"}
      [] p = "FetchCatalog" -> {"FilterRuntimes", "Aborted"}
      [] p = "FilterRuntimes" -> {"BuildNonRuntimeSpecific"}
      [] p = "BuildNonRuntimeSpecific" -> {"BuildRuntime", "WriteSummary", "Crashed"}
      [] p = "BuildRuntime" -> {"BuildRuntime", "WriteSummary", "Crashed"}
      [] p = "WriteSummary" -> {"Done"}
      [] OTHER -> {"Exited"}

\* the runtime builds that have written a file
RuntimeWriters == {w[1] : w \in {x \in written : x[1] >= 1}}

-----------------------------------------------------------------------------
(* The full build run: generations that raise *)

\* the generated_files of the k-th runtime of the run
GeneratedOf(k) == DictGet(all_generated_files, runtime_key(runtimes[k]))

\* the generation of image type t for the k-th runtime raised
Failed(k, t) == \E f \in failed : f[1] = k /\ f[2] = t

\* every runtime-specific image type of every runtime built so far, other than
\* those whose generation raised, got its Dockerfile and metadata
SiblingsProcessed ==
    \A k \in 1..built :
        \A t \in {u \in DOMAIN engine.image_types : engine.image_types[u].runtime_specific} :
            ~Failed(k, t) =>
                /\ Len(GeneratedOf(k)[t]) = 2
                /\ \A i \in 1..2 : <<k, GeneratedOf(k)[t][i]>> \in written

\* no runtime of the run makes get_runtime_variations raise
VariationsComputable == \A k \in 1..Len(runtimes) : ~get_runtime_variations_raises(runtimes[k])

-----------------------------------------------------------------------------
(* The build summary and the generations that raised *)

\* the build_summary.json document of the run
SummaryDocument == files[SummaryPath(engine)]

\* what build_details holds for image type t of the k-th runtime
Recorded(k, t) == DictGet(SummaryDocument.build_details, runtime_key(runtimes[k]))[t]

\* a path as save_build_summary writes it
SummaryForm(path) == relative_to(Absolute(path), engine.workspace_root)

\* the Dockerfile and metadata paths of image type t of the k-th runtime
ArtifactPaths(k, t) ==
    LET variation == get_runtime_variations(runtimes[k])[1]
    IN  << SummaryForm(save_dockerfile(engine.data_dir, runtimes[k], t, variation)),
           SummaryForm(save_runtime_metadata(engine.data_dir, runtimes[k], t, variation)) >>

-----------------------------------------------------------------------------
(* The empty catalog *)

\* C4: when the catalog provider returns no runtime, the full build run stops
\* right after fetching the catalog, without an exception: it builds nothing,
\* writes no Dockerfile, metadata or requirements file and no build summary,
\* and returns the empty result; a catalog that is not empty does not stop it.
C4_EmptyCatalogAborts ==
    /\ [][(phase = "Init" /\ FullBuild) =>
             IF runtimes' = <<>>
             THEN /\ phase' = "Aborted"
                  /\ UNCHANGED <<files, written, all_generated_files, summary_writes, built>>
             ELSE phase' = "FetchCatalog"]_vars
    /\ [](phase = "Aborted" =>
             /\ trace = <<"Init", "FetchCatalog", "Aborted">>
             /\ files = NoFiles
             /\ written = {}
             /\ summary_writes = 0
             /\ built = 0
             /\ all_generated_files = <<>>)
    /\ [][phase = "Aborted" => phase' = "Exited" /\ files' = files /\ written' = written]_vars

\* a run of the library that stopped on the empty catalog
C4_Witness ==
    /\ args = Nothing
    /\ phase = "Aborted"
    /\ runtimes = <<>>

-----------------------------------------------------------------------------
(* The exit status of the build command *)

\* the catalog the command fetched was empty
EmptyCatalog ==
    IF FullBuild THEN \E i \in 1..Len(trace) : trace[i] = "Aborted"
    ELSE runtimes = <<>>

\* the command line names a runtime version the catalog does not list
UnknownRuntimeVersion ==
    /\ args.runtime_version # None
    /\ IndexOfVersion(runtimes, args.runtime_version) = 0

\* the command line names an image type the registry does not hold
UnknownImageType ==
    /\ args.image_type # None
    /\ args.image_type \notin DOMAIN engine.image_types

\* C5 (as stated): the build command returns 1 when the catalog is empty, when
\* the requested runtime version is unknown and when the requested image type
\* is unknown, and 0 otherwise.
C5_ExitCode ==
    (args # Nothing /\ phase = "Exited") =>
        /\ exit_code \in {0, 1}
        /\ (EmptyCatalog \/ UnknownRuntimeVersion \/ UnknownImageType) => exit_code = 1
        /\ exit_code = 0 => ~(EmptyCatalog \/ UnknownRuntimeVersion \/ UnknownImageType)

-----------------------------------------------------------------------------
(* The paths written by different builds *)

-----------------------------------------------------------------------------
(* The directory of the artifacts *)

\* data/<imageType>/<version with spaces replaced by dashes>[<separator><suffix>][-ml]
ArtifactDir(data_dir, image_type, runtime, variation) ==
    data_dir \o "/" \o image_type \o "/" \o Replace(runtime.version, " ", "-")
        \o (IF variation # Nothing THEN variation.separator \o variation.suffix ELSE "")
        \o (IF runtime.is_ml THEN "-ml" ELSE "")

\* the paths below data/<image type>/ the build of the k-th runtime has written
WrittenFor(k, image_type) ==
    {w[2] : w \in {x \in written :
                     /\ x[1] = k
                     /\ StartsWith(x[2], engine.data_dir \o "/" \o image_type \o "/")
                     /\ image_type \in BaseImageTypes =>
                           ~StartsWith(x[2], engine.data_dir \o "/" \o image_type \o "/latest/")}}

\* the k-th runtime was built for image type t with this variation: what is written
ArtifactsIn(k, t, variation) ==
    LET dir == ArtifactDir(engine.data_dir, t, runtimes[k], variation)
    IN  WrittenFor(k, t) =
            {dir \o "/Dockerfile", dir \o "/runtime_metadata.json"}
            \cup (IF engine.image_types[t].runtime_specific
                  THEN {dir \o "/requirements.txt"} ELSE {})

\* the runtime a targeted build of the command line is for (0: none)
TargetIndex ==
    IF args = Nothing THEN 0
    ELSE IF args.runtime_version = None THEN 0
    ELSE IndexOfVersion(runtimes, args.runtime_version)

\* C7: the Dockerfile, runtime_metadata.json and requirements.txt of an (image
\* type, runtime, variation) are written into one directory,
\* data/<imageType>/<version with spaces replaced by dashes>[<separator><suffix>][-ml],
\* with the suffix when a variation is given (the builds of a full run) and
\* without it when none is given (the targeted build of the command line), and
\* with -ml exactly for an ML runtime; for "17.3 LTS", "ubuntu2404-py312" and
\* python the Dockerfile is data/python/17.3-LTS-ubuntu2404-py312/Dockerfile.
C7_ArtifactDirectory ==
    /\ (FullBuild /\ phase = "BuildRuntime") =>
          \A t \in {u \in DOMAIN engine.image_types : engine.image_types[u].runtime_specific} :
              ~Failed(built, t) =>
                  ArtifactsIn(built, t, get_runtime_variations(runtimes[built])[1])
    /\ (~FullBuild /\ phase = "Exited" /\ exit_code = 0 /\ TargetIndex # 0
          /\ args.image_type # None) =>
          ArtifactsIn(TargetIndex, args.image_type, Nothing)
    /\ \A w \in written :
          (w[1] = 1 /\ runtimes[1].version = "17.3 LTS" /\ ~runtimes[1].is_ml
             /\ EndsWith(w[2], "-ubuntu2404-py312/Dockerfile")
             /\ StartsWith(w[2], "data/python/"))
          => w[2] = "data/python/17.3-LTS-ubuntu2404-py312/Dockerfile"

\* the build of 17.3 LTS ML after that of 17.3 LTS: the Dockerfile of the
\* example, and the three files of python for the ML runtime in its -ml directory
C7_Witness ==
    /\ FullBuild
    /\ phase = "BuildRuntime"
    /\ built = 2
    /\ runtimes[2].is_ml
    /\ <<1, "data/python/17.3-LTS-ubuntu2404-py312/Dockerfile">> \in written
    /\ WrittenFor(2, "python") =
          {"data/python/17.3-LTS-ubuntu2404-py312-ml/Dockerfile",
           "data/python/17.3-LTS-ubuntu2404-py312-ml/runtime_metadata.json",
           "data/python/17.3-LTS-ubuntu2404-py312-ml/requirements.txt"}

-----------------------------------------------------------------------------
(* The build summary and the files of the run *)

\* every path of build_details
SummaryPaths ==
    UNION {UNION {{v[t][j] : j \in 1..Len(v[t])} : t \in DOMAIN v} :
              v \in {SummaryDocument.build_details[i].value :
                        i \in 1..Len(SummaryDocument.build_details)}}

\* every artifact file written in the run, as save_build_summary writes a path
ArtifactsWritten == {SummaryForm(w[2]) : w \in {x \in written : x[1] >= 0}}

-----------------------------------------------------------------------------
(* The reference to the parent image *)

\* the reference C9 states for an image type with a declared parent
ClaimedReference(types, image_type, runtime, variation, registry_) ==
    LET parent == types[image_type].depends_on
        name == (IF registry_ = None THEN "dbx-runtime" ELSE registry_) \o ":" \o parent
                   \o (IF Replace(parent, "-gpu", "") = "python" /\ variation # Nothing
                       THEN "-py" \o Replace(variation.python_version, ".", "")
                       ELSE "")
    IN  IF types[parent].runtime_specific /\ runtime # Nothing
        THEN name \o ":" \o sanitize_runtime_version(runtime.version)
                  \o (IF variation # Nothing THEN "-" \o variation.suffix ELSE "")
                  \o (IF runtime.is_ml THEN "-ml" ELSE "")
        ELSE name

-----------------------------------------------------------------------------
(* The image-type registry *)

\* the image types met from t by following depends_on, at most n links
RECURSIVE ParentChain(_, _, _)
ParentChain(types, t, n) ==
    IF n = 0 \/ t \notin DOMAIN types THEN <<t>>
    ELSE IF types[t].depends_on = None THEN <<t>>
    ELSE <<t>> \o ParentChain(types, types[t].depends_on, n - 1)

\* C10: in the registry of the engine every depends_on names an image type of
\* the registry, and following depends_on from any image type ends at an image
\* type with no parent without meeting an image type twice.
C10_RegistryForest ==
    LET types == engine.image_types
    IN  \A t \in DOMAIN types :
            LET chain == ParentChain(types, t, Cardinality(DOMAIN types))
                last == chain[Len(chain)]
            IN  /\ types[t].depends_on # None => types[t].depends_on \in DOMAIN types
                /\ \A i \in 1..Len(chain) : chain[i] \in DOMAIN types
                /\ \A i, j \in 1..Len(chain) : i # j => chain[i] # chain[j]
                /\ types[last].depends_on = None

\* a run has built python-gpu on its chain standard-gpu, minimal-gpu, gpu
C10_Witness ==
    /\ phase = "BuildRuntime"
    /\ ParentChain(engine.image_types, "python-gpu", 7)
          = <<"python-gpu", "standard-gpu", "minimal-gpu", "gpu">>
    /\ \E q \in DOMAIN files :
          /\ files[q].kind = "dockerfile"
          /\ files[q].image_type = "python-gpu"
          /\ files[q].base_image = "dbx-runtime:standard-gpu"
-----------------------------------------------------------------------------
(* Calls of _filter_latest_lts_runtimes *)

\* the most releases of a catalog handed to the filter
MaxFilterReleases == 3

\* the largest count handed to the filter
MaxCount == 3

\* the catalogs the filter is handed: what get_supported_runtimes returned
FilterCatalogs ==
    {get_supported_runtimes(releases) : releases \in ListsOf(ReleasePool, MaxFilterReleases)}

InitFilter ==
    /\ args = Nothing
    /\ engine \in {RuntimeContainerEngine("data", c, None, m) :
                      c \in 0..MaxCount, m \in BOOLEAN}
    /\ registry = None
    /\ phase = "Init"
    /\ runtimes = <<>>
    /\ built = 0
    /\ all_generated_files = <<>>
    /\ files = NoFiles
    /\ exit_code = NoExit
    /\ written = {}
    /\ failed = {}
    /\ trace = <<"Init">>
    /\ summary_writes = 0
    /\ call = Nothing

\* engine._filter_latest_lts_runtimes(runtimes, self.latest_lts_count)
CallFilterLatestLtsRuntimes ==
    /\ call = Nothing
    /\ \E catalog \in FilterCatalogs :
        call' = [fn |-> "_filter_latest_lts_runtimes",
                 runtimes |-> catalog,
                 count |-> engine.latest_lts_count,
                 result |-> filter_latest_lts_runtimes(catalog, engine.latest_lts_count,
                                                       engine.skip_ml_variants)]
    /\ UNCHANGED <<args, engine, registry, phase, runtimes, built, all_generated_files, files,
                   exit_code, written, failed, trace, summary_writes>>

NextFilter == CallFilterLatestLtsRuntimes

SpecFilter == InitFilter /\ [][NextFilter]_vars

\* the versions of the LTS runtimes of a list
LtsVersions(list) == {list[i].version : i \in {j \in 1..Len(list) : list[j].is_lts}}

\* where the version group v of a catalog starts
GroupStart(catalog, v) ==
    CHOOSE i \in 1..Len(catalog) :
        /\ catalog[i].is_lts /\ catalog[i].version = v
        /\ \A j \in 1..(i - 1) : ~(catalog[j].is_lts /\ catalog[j].version = v)

\* the release date of the version group v of a catalog
GroupDate(catalog, v) == catalog[GroupStart(catalog, v)].release_date

\* the versions of a list, in order of first occurrence
VersionsInOrder(list) == Distinct([i \in 1..Len(list) |-> list[i].version])

\* C11: _filter_latest_lts_runtimes(runtimes, N) returns only LTS runtimes of
\* the catalog, of at most N version groups, every kept group being at least
\* as recent as every dropped LTS group; the runtimes come group by group, in
\* descending order of release date, groups of one date in catalog order.
C11_LatestLtsGroups ==
    call # Nothing =>
        LET catalog == call.runtimes
            result == call.result
            kept == {result[i].version : i \in 1..Len(result)}
            dropped == LtsVersions(catalog) \ kept
            order == VersionsInOrder(result)
        IN  /\ \A i \in 1..Len(result) :
                 /\ result[i].is_lts
                 /\ \E j \in 1..Len(catalog) : catalog[j] = result[i]
            /\ Cardinality(kept) <= call.count
            /\ \A k \in kept, d \in dropped :
                 GroupDate(catalog, k) >= GroupDate(catalog, d)
            /\ \A i, j \in 1..Len(result) :
                 (i < j /\ result[i].version = result[j].version)
                 => \A m \in i..j : result[m].version = result[i].version
            /\ \A i, j \in 1..Len(order) :
                 i < j => \/ GroupDate(catalog, order[i]) > GroupDate(catalog, order[j])
                          \/ /\ GroupDate(catalog, order[i]) = GroupDate(catalog, order[j])
                             /\ GroupStart(catalog, order[i]) < GroupStart(catalog, order[j])

\* the filter kept two groups of one release date and dropped an older one
C11_Witness ==
    /\ call # Nothing
    /\ call.count = 2
    /\ VersionsInOrder(call.result) = <<"14.3 LTS", "15.4 LTS">>
    /\ "13.3 LTS" \in LtsVersions(call.runtimes)

\* C12: for a catalog of at least N LTS version groups,
\* _filter_latest_lts_runtimes(runtimes, N) returns runtimes of exactly N
\* versions; with skip_ml_variants on the result holds no ML variant, and with
\* it off the result holds every base and ML runtime of each selected group.
C12_ExactlyNGroups ==
    (call # Nothing /\ Cardinality(LtsVersions(call.runtimes)) >= call.count) =>
        LET catalog == call.runtimes
            result == call.result
            kept == {result[i].version : i \in 1..Len(result)}
        IN  /\ Cardinality(kept) = call.count
            /\ engine.skip_ml_variants => \A i \in 1..Len(result) : ~result[i].is_ml
            /\ ~engine.skip_ml_variants =>
                 \A j \in 1..Len(catalog) :
                    (catalog[j].is_lts /\ catalog[j].version \in kept)
                    => \E i \in 1..Len(result) : result[i] = catalog[j]

\* two of three LTS groups were selected with the ML policy off, and the ML
\* variant of one of them is in the result
C12_Witness ==
    /\ call # Nothing
    /\ ~engine.skip_ml_variants
    /\ call.count = 2
    /\ Cardinality(LtsVersions(call.runtimes)) = 3
    /\ \E i \in 1..Len(call.result) : call.result[i].is_ml

-----------------------------------------------------------------------------
(* generate_build_matrix *)

\* the characters of the strings compared, in code point order
CodePointOrder == " ()-./0123456789ABCDEFGHIJKLMNOPQRSTUVWXYZ_abcdefghijklmnopqrstuvwxyz"

\* ord(c), up to an order-preserving renumbering
Ord(c) == CHOOSE i \in 1..Len(CodePointOrder) : CharAt(CodePointOrder, i) = c

\* a < b on str
RECURSIVE StrLess(_, _)
StrLess(a, b) ==
    IF b = "" THEN FALSE
    ELSE IF a = "" THEN TRUE
    ELSE IF CharAt(a, 1) = CharAt(b, 1)
         THEN StrLess(SubSeq(a, 2, Len(a)), SubSeq(b, 2, Len(b)))
         ELSE Ord(CharAt(a, 1)) < Ord(CharAt(b, 1))

\* the length of the run of digits of s that starts at position i
RECURSIVE DigitRun(_, _)
DigitRun(s, i) ==
    IF i <= Len(s) /\ IsDigit(CharAt(s, i)) THEN 1 + DigitRun(s, i + 1) ELSE 0

\* re.search(r"(-ubuntu\d+-py\d+)", s): the end of the match that starts at
\* position i, or 0 when there is none
UbuntuPyMatchEnd(s, i) ==
    LET d1 == i + 7
        n1 == DigitRun(s, d1)
        p == d1 + n1
        d2 == p + 3
        n2 == DigitRun(s, d2)
    IN  IF /\ i + 6 <= Len(s) /\ SubSeq(s, i, i + 6) = "-ubuntu" /\ n1 >= 1
           /\ p + 2 <= Len(s) /\ SubSeq(s, p, p + 2) = "-py" /\ n2 >= 1
        THEN d2 + n2 - 1
        ELSE 0

\* match.group(1) if match else ""
UbuntuPySearch(s) ==
    LET starts == {i \in 1..Len(s) : UbuntuPyMatchEnd(s, i) > 0}
    IN  IF starts = {} THEN ""
        ELSE LET i == CHOOSE k \in starts : \A j \in starts : k <= j
             IN  SubSeq(s, i, UbuntuPyMatchEnd(s, i))

\* MatrixSuffix that leaves the "-ml" of the directory name in the suffix
MatrixSuffix_keeps_ml(runtime, first_file) ==
    LET parts == SplitOn(first_file, "/")
    IN  IF Len(parts) >= 3
        THEN LET runtime_dir == parts[3]
                 runtime_sanitized == Replace(runtime, " ", "-")
             IN  IF StartsWith(runtime_dir, runtime_sanitized)
                 THEN SubSeq(runtime_dir, Len(runtime_sanitized) + 1, Len(runtime_dir))
                 ELSE UbuntuPySearch(runtime_dir)
        ELSE ""

\* the variation suffix generate_build_matrix reads off the first file path
MatrixSuffix(runtime, first_file) ==
    LET parts == SplitOn(first_file, "/")
    IN  IF Len(parts) >= 3
        THEN LET runtime_dir == parts[3]
                 runtime_sanitized == Replace(runtime, " ", "-")
             IN  IF StartsWith(runtime_dir, runtime_sanitized)
                 THEN Replace(SubSeq(runtime_dir, Len(runtime_sanitized) + 1,
                                     Len(runtime_dir)), "-ml", "")
                 ELSE UbuntuPySearch(runtime_dir)
        ELSE ""

\* the loop body of generate_build_matrix with every entry given the variant ""
MatrixEntriesOf_variant_never_ml(item, only_lts, image_type) ==
    LET key == item.key
        runtime_data == item.value
        runtime == Replace(key, "_ml", "")
        img_types == SelectSeq(ImageTypeOrder, LAMBDA t : t \in DOMAIN runtime_data)
        entry(img_type) ==
            IF \/ (image_type # None /\ image_type # "" /\ img_type # image_type)
               \/ img_type \notin {"python", "python-gpu"}
               \/ runtime_data[img_type] = <<>>
            THEN <<>>
            ELSE << [runtime |-> runtime,
                     image_type |-> img_type,
                     variant |-> "",
                     suffix |-> MatrixSuffix(runtime, runtime_data[img_type][1])] >>
    IN  IF key = "non_runtime_specific" THEN <<>>
        ELSE IF only_lts /\ ~Contains(runtime, "LTS") THEN <<>>
        ELSE Flatten([i \in 1..Len(img_types) |-> entry(img_types[i])])

\* the entries the loop appends for one item of build_details
MatrixEntriesOf(item, only_lts, image_type) ==
    LET key == item.key
        runtime_data == item.value
        is_ml == EndsWith(key, "_ml")
        runtime == Replace(key, "_ml", "")
        img_types == SelectSeq(ImageTypeOrder, LAMBDA t : t \in DOMAIN runtime_data)
        entry(img_type) ==
            IF \/ (image_type # None /\ image_type # "" /\ img_type # image_type)
               \/ img_type \notin {"python", "python-gpu"}
               \/ runtime_data[img_type] = <<>>
            THEN <<>>
            ELSE << [runtime |-> runtime,
                     image_type |-> img_type,
                     variant |-> IF is_ml THEN ".ml" ELSE "",
                     suffix |-> MatrixSuffix(runtime, runtime_data[img_type][1])] >>
    IN  IF key = "non_runtime_specific" THEN <<>>
        ELSE IF only_lts /\ ~Contains(runtime, "LTS") THEN <<>>
        ELSE Flatten([i \in 1..Len(img_types) |-> entry(img_types[i])])

\* the sort key of a matrix entry: (not 17, not 16, not 15, not 14, runtime,
\* image_type, variant), False before True
MatrixSortKey(x) ==
    << IF StartsWith(x.runtime, "17") THEN 0 ELSE 1,
       IF StartsWith(x.runtime, "16") THEN 0 ELSE 1,
       IF StartsWith(x.runtime, "15") THEN 0 ELSE 1,
       IF StartsWith(x.runtime, "14") THEN 0 ELSE 1,
       x.runtime, x.image_type, x.variant >>

\* a < b on the sort keys, compared as Python compares tuples
MatrixKeyLess(a, b) ==
    \E i \in 1..7 :
        /\ \A j \in 1..(i - 1) : a[j] = b[j]
        /\ IF i <= 4 THEN a[i] < b[i] ELSE StrLess(a[i], b[i])

\* list.sort(key=...): stable, ascending
MatrixSort(entries) ==
    LET n == Len(entries)
        k(i) == MatrixSortKey(entries[i])
        pos(i) == 1 + Cardinality({j \in 1..n :
                                      \/ MatrixKeyLess(k(j), k(i))
                                      \/ (k(j) = k(i) /\ j < i)})
    IN  [p \in 1..n |-> entries[CHOOSE i \in 1..n : pos(i) = p]]

\* generate_build_matrix that raises when the summary is missing
generate_build_matrix_raises_when_missing(summary, only_lts, image_type, latest_lts_count) ==
    IF summary = Nothing THEN [raised |-> "FileNotFoundError"]
    ELSE [include |-> <<>>]

\* generate_build_matrix: the dict returned for the build summary of the data
\* directory (Nothing when there is no build_summary.json)
generate_build_matrix(summary, only_lts, image_type, latest_lts_count) ==
    IF summary = Nothing THEN [include |-> <<>>]
    ELSE
    LET build_details == summary.build_details
        matrix_entries == Flatten([i \in 1..Len(build_details) |->
                                      MatrixEntriesOf(build_details[i], only_lts, image_type)])
        unique_entries == MatrixSort(Distinct(matrix_entries))
        runtime_versions == Distinct([i \in 1..Len(unique_entries) |->
                                         unique_entries[i].runtime])
        latest_versions == Take(runtime_versions, latest_lts_count)
    IN  IF latest_lts_count # NoCount
        THEN [include |-> SelectSeq(unique_entries,
                             LAMBDA e : \E i \in 1..Len(latest_versions) :
                                           latest_versions[i] = e.runtime)]
        ELSE [include |-> unique_entries]

-----------------------------------------------------------------------------
(* Calls of generate_build_matrix on the summary of an earlier build run *)

\* the most releases of the catalog of the earlier run
MaxMatrixReleases == 3

\* the largest latest_lts_count handed to generate_build_matrix
MaxMatrixCount == 2

\* the releases the documentation listed for the earlier run
MatrixPool ==
    { Release("17.3 LTS", 5, TRUE,  TRUE,  "Ubuntu 24.04.3 LTS", "3.12.3"),
      Release("17.2",     5, FALSE, FALSE, "",                   ""),
      Release("16.4 LTS", 4, TRUE,  FALSE, "Ubuntu 24.04.2 LTS", "3.12.3"),
      Release("13.3 LTS", 2, TRUE,  TRUE,  "Ubuntu 22.04.2 LTS", "3.10.12"),
      Release("12.2 LTS", 1, TRUE,  FALSE, "Ubuntu 20.04.5 LTS", "3.9.5") }

MatrixCatalogs ==
    {get_supported_runtimes(releases) : releases \in ListsOf(MatrixPool, MaxMatrixReleases)}

\* all_generated_files after the first k runtimes of a full build run, the
\* python image of runtime fail_at (if any) having raised
RECURSIVE RunGeneratedFiles(_, _, _, _)
RunGeneratedFiles(self, catalog, fail_at, k) ==
    IF k = 0
    THEN DictSet(<<>>, "non_runtime_specific",
                 build_non_runtime_specific_images(NonRuntimeSteps(self, None),
                                                   {}).generated_files)
    ELSE LET plan == IF k = fail_at
                     THEN [NoFailure(self) EXCEPT !.py["python"] = "render"]
                     ELSE NoFailure(self)
         IN  DictSet(RunGeneratedFiles(self, catalog, fail_at, k - 1),
                     runtime_key(catalog[k]),
                     build_all_images_for_runtime(RuntimeSteps(self, None, catalog[k]),
                                                  plan).generated_files)

\* the data directory after that run, as far as generate_build_matrix reads it
FilesAfterRun(self, catalog, fail_at) ==
    ApplyWrites(NoFiles,
                <<Write(SummaryPath(self),
                        save_build_summary(self, RunGeneratedFiles(self, catalog, fail_at,
                                                                   Len(catalog))))>>)

InitMatrix ==
    /\ args = Nothing
    /\ engine \in {RuntimeContainerEngine(d, NoCount, None, TRUE) : d \in {"data", "out/dbx"}}
    /\ registry = None
    /\ phase = "Init"
    /\ runtimes \in MatrixCatalogs
    /\ built = 0
    /\ all_generated_files = <<>>
    /\ \/ files = NoFiles /\ runtimes = <<>>
       \/ \E fail_at \in 0..Len(runtimes) :
             /\ runtimes # <<>>
             /\ files = FilesAfterRun(engine, runtimes, fail_at)
    /\ exit_code = NoExit
    /\ written = {}
    /\ failed = {}
    /\ trace = <<"Init">>
    /\ summary_writes = 0
    /\ call = Nothing

\* engine.generate_build_matrix(only_lts, image_type, latest_lts_count)
CallGenerateBuildMatrix ==
    /\ call = Nothing
    /\ \E only_lts \in BOOLEAN, image_type \in {None, "python-gpu", "gpu"},
          latest_lts_count \in {NoCount} \cup 0..MaxMatrixCount :
        LET summary_path == SummaryPath(engine)
            summary == IF summary_path \in DOMAIN files THEN files[summary_path]
                       ELSE Nothing
        IN  call' = [fn |-> "generate_build_matrix",
                     only_lts |-> only_lts,
                     image_type |-> image_type,
                     latest_lts_count |-> latest_lts_count,
                     result |-> generate_build_matrix(summary, only_lts, image_type,
                                                      latest_lts_count)]
    /\ UNCHANGED <<args, engine, registry, phase, runtimes, built, all_generated_files, files,
                   exit_code, written, failed, trace, summary_writes>>

NextMatrix == CallGenerateBuildMatrix

SpecMatrix == InitMatrix /\ [][NextMatrix]_vars

-----------------------------------------------------------------------------
(* The build matrix *)

\* the build summary generate_build_matrix read
MatrixSummary == files[SummaryPath(engine)]

\* generate_build_matrix was called on an existing summary
MatrixCalled == call # Nothing /\ SummaryPath(engine) \in DOMAIN files

\* the (runtime key, image type) pairs of the summary that stand for a
\* runtime-specific image with artifacts
MatrixPairs ==
    LET details == MatrixSummary.build_details
    IN  UNION {{<<details[i].key, t>> :
                   t \in {u \in DOMAIN details[i].value \cap {"python", "python-gpu"} :
                             details[i].value[u] # <<>>}} :
               i \in {j \in 1..Len(details) : details[j].key # "non_runtime_specific"}}

\* the matrix entries that stand for a pair
EntriesOfPair(pair) ==
    {i \in 1..Len(call.result.include) :
        LET e == call.result.include[i]
        IN  /\ e.runtime = Replace(pair[1], "_ml", "")
            /\ e.image_type = pair[2]
            /\ e.variant = (IF EndsWith(pair[1], "_ml") THEN ".ml" ELSE "")}

\* C13: generate_build_matrix with no filter returns exactly one entry for each
\* pair of a runtime key other than non_runtime_specific and an image type among
\* python and python-gpu whose artifact list is not empty, with variant ".ml"
\* when the key ends with "_ml" and "" otherwise; it returns no other entry and
\* no two entries equal on (runtime, image_type, variant, suffix).
C13_MatrixEntries ==
    (/\ MatrixCalled
     /\ ~call.only_lts /\ call.image_type = None /\ call.latest_lts_count = NoCount)
    => LET include == call.result.include
       IN  /\ \A pair \in MatrixPairs : Cardinality(EntriesOfPair(pair)) = 1
           /\ \A i \in 1..Len(include) : \E pair \in MatrixPairs : i \in EntriesOfPair(pair)
           /\ \A i, j \in 1..Len(include) :
                 i # j => <<include[i].runtime, include[i].image_type,
                            include[i].variant, include[i].suffix>>
                          # <<include[j].runtime, include[j].image_type,
                              include[j].variant, include[j].suffix>>

\* the matrix of a summary with a non_runtime_specific bucket, an ML runtime
\* and a runtime whose python image has no artifact
C13_Witness ==
    /\ MatrixCalled
    /\ ~call.only_lts /\ call.image_type = None /\ call.latest_lts_count = NoCount
    /\ \E i \in 1..Len(MatrixSummary.build_details) :
          MatrixSummary.build_details[i].key = "non_runtime_specific"
    /\ \E i \in 1..Len(MatrixSummary.build_details) :
          /\ MatrixSummary.build_details[i].key # "non_runtime_specific"
          /\ MatrixSummary.build_details[i].value["python"] = <<>>
    /\ \E i \in 1..Len(call.result.include) :
          /\ call.result.include[i].variant = ".ml"
          /\ call.result.include[i].suffix = "-ubuntu2404-py312"
    /\ \E i \in 1..Len(call.result.include) : call.result.include[i].variant = ""

\* the major version of a runtime version such as "17.3 LTS"
MajorVersion(runtime) == ParseInt(SplitOn(runtime, ".")[1])

\* a <= b on str
StrLeq(a, b) == a = b \/ StrLess(a, b)

\* two entries are in the order of the sort: higher major version first, then
\* runtime, image type and variant ascending
MatrixOrdered(a, b) ==
    \/ MajorVersion(a.runtime) > MajorVersion(b.runtime)
    \/ /\ MajorVersion(a.runtime) = MajorVersion(b.runtime)
       /\ \/ StrLess(a.runtime, b.runtime)
          \/ /\ a.runtime = b.runtime
             /\ \/ StrLess(a.image_type, b.image_type)
                \/ (a.image_type = b.image_type /\ StrLeq(a.variant, b.variant))

\* C14 (as stated): the entries generate_build_matrix returns are sorted by
\* descending major version of the runtime, an entry of a higher major version
\* always preceding one of a lower major version, then by runtime, then by
\* image type, then by variant.
C14_MatrixSorted ==
    MatrixCalled =>
        \A i, j \in 1..Len(call.result.include) :
            i < j => MatrixOrdered(call.result.include[i], call.result.include[j])

\* the order of the entries in the code: the families 17, 16, 15 and 14 first,
\* in that order, then every other runtime, and ascending runtime, image type
\* and variant inside each of these five classes
C14_SortedByListedFamilies ==
    MatrixCalled =>
        \A i, j \in 1..Len(call.result.include) :
            i < j => LET a == call.result.include[i]
                         b == call.result.include[j]
                         class(x) == IF MajorVersion(x.runtime) \in 14..17
                                     THEN 17 - MajorVersion(x.runtime) ELSE 4
                     IN  \/ class(a) < class(b)
                         \/ /\ class(a) = class(b)
                            /\ \/ StrLess(a.runtime, b.runtime)
                               \/ /\ a.runtime = b.runtime
                                  /\ \/ StrLess(a.image_type, b.image_type)
                                     \/ /\ a.image_type = b.image_type
                                        /\ StrLeq(a.variant, b.variant)

\* the release date of a runtime version in the catalog of the earlier run
ReleaseDateOf(version) ==
    runtimes[CHOOSE i \in 1..Len(runtimes) : runtimes[i].version = version].release_date

\* the entries generate_build_matrix returns for the same filters without
\* latest_lts_count
MatrixUnlimited ==
    generate_build_matrix(MatrixSummary, call.only_lts, call.image_type, NoCount).include

\* the runtime values of a list of entries
RuntimesOf(entries) == {entries[i].runtime : i \in 1..Len(entries)}

\* C15 (as stated): generate_build_matrix with latest_lts_count = N keeps
\* exactly the entries of the N latest LTS runtime versions of the summary:
\* every entry of a retained runtime and no entry of another runtime, the
\* retained runtimes being LTS versions, as many as N allows, and each at least
\* as recent as every LTS runtime that was dropped.
C15_LatestLtsCount ==
    (MatrixCalled /\ call.latest_lts_count # NoCount) =>
        LET all == MatrixUnlimited
            retained == RuntimesOf(call.result.include)
            lts == {r \in RuntimesOf(all) : Contains(r, "LTS")}
            dropped == lts \ retained
        IN  /\ call.result.include = SelectSeq(all, LAMBDA e : e.runtime \in retained)
            /\ \A r \in retained : Contains(r, "LTS")
            /\ Cardinality(retained) = (IF Cardinality(lts) < call.latest_lts_count
                                        THEN Cardinality(lts) ELSE call.latest_lts_count)
            /\ \A r \in retained, d \in dropped : ReleaseDateOf(r) >= ReleaseDateOf(d)

\* what the code keeps: the entries of the first N distinct runtime values of
\* the sorted entries, LTS or not
C15_FirstRuntimesOfSortedEntries ==
    (MatrixCalled /\ call.latest_lts_count # NoCount) =>
        LET all == MatrixUnlimited
            first == Take(Distinct([i \in 1..Len(all) |-> all[i].runtime]),
                          call.latest_lts_count)
        IN  call.result.include
               = SelectSeq(all, LAMBDA e : \E i \in 1..Len(first) : first[i] = e.runtime)

\* C15 for a summary that holds LTS runtimes only: the retained runtimes are
\* still not the most recent ones
C15_LatestOfLtsOnlySummary ==
    (/\ MatrixCalled /\ call.latest_lts_count # NoCount
     /\ \A i \in 1..Len(runtimes) : runtimes[i].is_lts)
    => \A r \in RuntimesOf(call.result.include),
          d \in RuntimesOf(MatrixUnlimited) \ RuntimesOf(call.result.include) :
            ReleaseDateOf(r) >= ReleaseDateOf(d)

\* C16: when the data directory holds no build_summary.json,
\* generate_build_matrix returns {"include": []} without raising, and no file
\* is created or modified by the call.
C16_MissingSummary ==
    /\ []((call # Nothing /\ SummaryPath(engine) \notin DOMAIN files)
             => call.result = [include |-> <<>>])
    /\ [][(call = Nothing /\ call' # Nothing /\ SummaryPath(engine) \notin DOMAIN files)
             => files' = files]_vars

\* generate_build_matrix was called on a data directory without summary
C16_Witness ==
    /\ call # Nothing
    /\ call.fn = "generate_build_matrix"
    /\ SummaryPath(engine) \notin DOMAIN files
    /\ call.latest_lts_count = 1

-----------------------------------------------------------------------------
(* The Ubuntu version of the base images *)

\* the Dockerfiles of image type t that the build of the runtime processed
\* last has just written
BaseDockerfilesJustWritten(t) ==
    {p \in DOMAIN files :
        /\ <<built, p>> \in written
        /\ files[p].kind = "dockerfile"
        /\ files[p].image_type = t}

\* the build of a runtime has just ended in a full build run
RuntimeJustBuilt == phase = "BuildRuntime" /\ built >= 1

\* the native OS version of the runtime processed last
NativeOsVersion == get_runtime_variations(runtimes[built])[1].os_version

C17_ForcedOnlyForNative2404 ==
    (/\ RuntimeJustBuilt
     /\ engine.force_ubuntu_version # None)
    => \A p \in BaseDockerfilesJustWritten("minimal") :
          files[p].base_image =
             "ubuntu:" \o (IF NativeOsVersion = "24.04" THEN engine.force_ubuntu_version
                           ELSE NativeOsVersion)

\* the metadata documents the build of the runtime processed last has just
\* written
MetadataJustWritten ==
    {p \in DOMAIN files : <<built, p>> \in written /\ files[p].kind = "metadata"}

\* C18: with no forced Ubuntu version, the base images built for a runtime
\* whose native OS version is not 24.04 use Ubuntu 24.04 (the minimal image is
\* based on ubuntu:24.04), while the variation block of the metadata documents
\* of the runtime, and its suffix, record the native OS version.
C18_UpgradeKeepsNativeInMetadata ==
    (RuntimeJustBuilt /\ engine.force_ubuntu_version = None) =>
        \A native \in {extract_os_version_from_runtime(runtimes[built])} :
            native # "24.04" =>
               \A w \in written :
                  w[1] = built =>
                     /\ (files[w[2]].kind = "dockerfile"
                            /\ files[w[2]].image_type \in BaseImageTypes)
                        => /\ files[w[2]].ubuntu_version = "24.04"
                           /\ files[w[2]].image_type = "minimal"
                                 => files[w[2]].base_image = "ubuntu:24.04"
                     /\ files[w[2]].kind = "metadata"
                        => /\ files[w[2]].variation.os_version = native
                           /\ Contains(runtimes[built].system_environment.operating_system,
                                       " " \o native)
                           /\ StartsWith(files[w[2]].variation.suffix,
                                         "ubuntu" \o Replace(native, ".", "") \o "-py")

\* a runtime on Ubuntu 22.04 was built: its minimal image is based on
\* ubuntu:24.04 and its metadata records 22.04
C18_Witness ==
    /\ RuntimeJustBuilt
    /\ engine.force_ubuntu_version = None
    /\ NativeOsVersion = "22.04"
    /\ \E p \in BaseDockerfilesJustWritten("minimal") : files[p].base_image = "ubuntu:24.04"
    /\ \E p \in MetadataJustWritten :
          /\ files[p].variation.os_version = "22.04"
          /\ files[p].variation.suffix = "ubuntu2204-py311"

-----------------------------------------------------------------------------
(* The images that are not runtime-specific *)

\* the generations of image type t in the run: who wrote a Dockerfile of the
\* image type, and where
GenerationsOf(t) ==
    {w \in written : /\ StartsWith(w[2], PathJoin(engine.data_dir, t) \o "/")
                     /\ EndsWith(w[2], "/Dockerfile")}

\* the version-independent path of an image type
LatestPath(t) == PathJoin(PathJoin(PathJoin(engine.data_dir, t), "latest"), "Dockerfile")

\* a full build run has ended and no generation raised in it
FullRunEnded == FullBuild /\ phase \in {"WriteSummary", "Done"} /\ failed = {}

C19_OncePlusBaseImageLoop ==
    FullRunEnded =>
        \A t \in {u \in DOMAIN engine.image_types : ~engine.image_types[u].runtime_specific} :
            /\ <<0, LatestPath(t)>> \in GenerationsOf(t)
            /\ \A w \in GenerationsOf(t) : w[1] = 0 => w[2] = LatestPath(t)
            /\ \A k \in 1..Len(runtimes) :
                  (\E w \in GenerationsOf(t) : w[1] = k)
                  <=> /\ t \in BaseImageTypes
                      /\ \/ engine.force_ubuntu_version # None
                         \/ get_runtime_variations(runtimes[k])[1].os_version # "24.04"

-----------------------------------------------------------------------------
(* DockerfileBuilder (docker/builder.py) on StringBuilder (utils/stringbuilder.py) *)

\* StringBuilder.__init__: LF line ending, four spaces of indentation
StringBuilder == [indent_level |-> 0, eol |-> "\n", indent_string |-> "    ", content |-> <<>>]

\* s * n on str
RECURSIVE Repeat(_, _)
Repeat(s, n) == IF n <= 0 THEN "" ELSE s \o Repeat(s, n - 1)

\* StringBuilder.append putting the value in front of the content
append_in_front(sb, value) ==
    [sb EXCEPT !.content = <<value>> \o sb.content]

\* StringBuilder.append
append(sb, value) ==
    IF sb.indent_level > 0
    THEN [sb EXCEPT !.content = Append(sb.content,
                                       Repeat(sb.indent_string, sb.indent_level) \o value)]
    ELSE [sb EXCEPT !.content = Append(sb.content, value)]

\* StringBuilder.append_line
append_line(sb, value) == append(sb, value \o sb.eol)

\* StringBuilder.__str__: "".join(self.content)
RECURSIVE Join(_)
Join(content) == IF content = <<>> THEN "" ELSE Head(content) \o Join(Tail(content))

\* a str or None field inside an f-string
Formatted(value) == IF value = None THEN "None" ELSE value

\* the port field inside an f-string: an int, a str or None
PortFormatted(port) ==
    IF port = Nothing THEN "None"
    ELSE IF "int" \in DOMAIN port THEN IntToStr(port.int)
    ELSE port.str

\* str(instruction) for the instruction classes of docker/instructions.py
InstructionStr(instruction) ==
    CASE instruction.class = "FromInstruction" -> "FROM " \o Formatted(instruction.image)
      [] instruction.class = "ArgInstruction" ->
            IF instruction.default = None THEN "ARG " \o Formatted(instruction.name)
            ELSE "ARG " \o Formatted(instruction.name) \o "=" \o instruction.default
      [] instruction.class = "EnvInstruction" ->
            "ENV " \o Formatted(instruction.name) \o "=" \o Formatted(instruction.value)
      [] instruction.class = "RunInstruction" -> "RUN " \o Formatted(instruction.command)
      [] instruction.class = "CommentInstruction" -> "# " \o Formatted(instruction.comment)
      [] instruction.class = "ExposeInstruction" -> "EXPOSE " \o PortFormatted(instruction.port)

\* DockerfileBuilder.add_instruction
add_instruction(self, instruction) ==
    [self EXCEPT !.builder = append_line(self.builder, instruction)]

\* DockerInstruction.apply, the same in every instruction class
apply(instruction, self) == add_instruction(self, InstructionStr(instruction))

\* for instr in instrs: instr.apply(self)
RECURSIVE ApplyAll(_, _)
ApplyAll(self, instrs) ==
    IF instrs = <<>> THEN self ELSE ApplyAll(apply(Head(instrs), self), Tail(instrs))

\* DockerfileBuilder.__init__ (instrs: None is the empty list here)
DockerfileBuilder(base_image, instrs, registry_arg) ==
    ApplyAll(apply(base_image,
                   [builder |-> StringBuilder,
                    base_image |-> base_image,
                    registry |-> IF registry_arg # None /\ registry_arg # ""
                                 THEN registry_arg ELSE "ghcr.io/twsl"]),
             instrs)

\* DockerfileBuilder.add
add(self, feature) == apply(feature, self)

\* DockerfileBuilder.__add__
plus(self, instruction) == apply(instruction, self)

\* DockerfileBuilder.__call__
call_many(self, features) == ApplyAll(self, features)

\* DockerfileBuilder.render
render(self) == Join(self.builder.content)

\* the most lines a builder is given
MaxBuilderLines == 4

FromInstruction(image) == [class |-> "FromInstruction", image |-> image]

\* the base images builders are constructed on
BaseImageInstructions == {FromInstruction("ubuntu:24.04"), FromInstruction("dbx-runtime:minimal")}

\* the instructions applied to a builder
InstructionPool ==
    { [class |-> "EnvInstruction", name |-> "LANG", value |-> "C.UTF-8"],
      [class |-> "RunInstruction", command |-> "apt-get update"],
      [class |-> "ArgInstruction", name |-> "JDK8_VERSION", default |-> None],
      [class |-> "CommentInstruction", comment |-> "FROM scratch"],
      FromInstruction("scratch") }

\* the raw lines handed to add_instruction
RawInstructions == {"USER root", ""}

InitBuilder ==
    /\ args = Nothing
    /\ engine = RuntimeContainerEngine("data", NoCount, None, TRUE)
    /\ registry = None
    /\ phase = "Init"
    /\ runtimes = <<>>
    /\ built = 0
    /\ all_generated_files = <<>>
    /\ files = NoFiles
    /\ exit_code = NoExit
    /\ written = {}
    /\ failed = {}
    /\ trace = <<"Init">>
    /\ summary_writes = 0
    /\ call = Nothing

\* the operations leave everything but the builder alone
BuilderFrame ==
    UNCHANGED <<args, engine, registry, phase, runtimes, built, all_generated_files, files,
                exit_code, written, failed, trace, summary_writes>>

Lines(self) == Len(self.builder.content)

\* the lines str() gives for a list of instructions
StepLines(instrs) == [i \in 1..Len(instrs) |-> InstructionStr(instrs[i])]

\* the builder after an operation: the operation, the object, the rendered
\* lines of the steps applied to it so far, and the text a render() returned
Called(fn, self, steps, text) == [fn |-> fn, self |-> self, steps |-> steps, text |-> text]

\* DockerfileBuilder(base_image, instrs, registry)
Construct ==
    /\ call = Nothing
    /\ \E base_image \in BaseImageInstructions,
          instrs \in ListsOf(InstructionPool, 1),
          registry_arg \in Registries :
        call' = Called("__init__", DockerfileBuilder(base_image, instrs, registry_arg),
                       StepLines(<<base_image>> \o instrs), None)
    /\ BuilderFrame

\* builder.add(feature)
Add ==
    /\ call # Nothing /\ Lines(call.self) < MaxBuilderLines
    /\ \E feature \in InstructionPool :
        call' = Called("add", add(call.self, feature),
                       call.steps \o StepLines(<<feature>>), None)
    /\ BuilderFrame

\* builder + instruction
Plus ==
    /\ call # Nothing /\ Lines(call.self) < MaxBuilderLines
    /\ \E instruction \in InstructionPool :
        call' = Called("__add__", plus(call.self, instruction),
                       call.steps \o StepLines(<<instruction>>), None)
    /\ BuilderFrame

\* builder(*features)
CallMany ==
    /\ call # Nothing
    /\ \E features \in ListsOf(InstructionPool, 2) :
        /\ Lines(call.self) + Len(features) <= MaxBuilderLines
        /\ call' = Called("__call__", call_many(call.self, features),
                          call.steps \o StepLines(features), None)
    /\ BuilderFrame

\* builder.add_instruction(instruction)
AddInstruction ==
    /\ call # Nothing /\ Lines(call.self) < MaxBuilderLines
    /\ \E instruction \in RawInstructions :
        call' = Called("add_instruction", add_instruction(call.self, instruction),
                       Append(call.steps, instruction), None)
    /\ BuilderFrame

\* builder.render()
Render ==
    /\ call # Nothing
    /\ call' = Called("render", call.self, call.steps, render(call.self))
    /\ BuilderFrame

NextBuilder == Construct \/ Add \/ Plus \/ CallMany \/ AddInstruction \/ Render

SpecBuilder == InitBuilder /\ [][NextBuilder]_vars

\* the first line of a text, without its line ending
FirstLine(text) == SplitOn(text, "\n")[1]

\* C20: after its construction and after every add, +, call with many features
\* and add_instruction, the first line a DockerfileBuilder renders is the FROM
\* line of the base image it was constructed on, and the text rendered before
\* an operation is a prefix of the text rendered after it.
C20_BuilderAppendOnly ==
    /\ [](call # Nothing =>
             FirstLine(render(call.self)) = "FROM " \o call.self.base_image.image)
    /\ [][call # Nothing => StartsWith(render(call'.self), render(call.self))]_vars

\* a builder constructed with an instruction was given a second FROM line and a
\* raw instruction
C20_Witness ==
    /\ call # Nothing
    /\ call.fn = "add_instruction"
    /\ Lines(call.self) = 4
    /\ call.self.builder.content[2] = "ENV LANG=C.UTF-8\n"
    /\ call.self.builder.content[3] = "FROM scratch\n"
    /\ render(call.self) = "FROM ubuntu:24.04\nENV LANG=C.UTF-8\nFROM scratch\nUSER root\n"

\* sep.join(lines)
RECURSIVE JoinWith(_, _)
JoinWith(lines, sep) ==
    IF lines = <<>> THEN ""
    ELSE IF Len(lines) = 1 THEN lines[1]
    ELSE lines[1] \o sep \o JoinWith(Tail(lines), sep)

\* C21 (as stated): render() returns the rendered lines of the base-image step
\* and of the applied steps, in application order, joined with "\n" as a
\* separator with nothing after the last line; rendering leaves the builder as
\* it is, and rendering again gives the same text.
C21_RenderJoinsLines ==
    (call # Nothing /\ call.fn = "render") =>
        /\ call.text = JoinWith(call.steps, "\n")
        /\ render(call.self) = call.text

\* what render() returns in the code: every line followed by "\n", the last
\* one included
C21_RenderTerminatesLines ==
    (call # Nothing /\ call.fn = "render") =>
        call.text = Join([i \in 1..Len(call.steps) |-> call.steps[i] \o "\n"])

\* rendering leaves the builder as it is, and rendering again gives the same
\* text
C21_RenderIdempotent ==
    /\ [][(call # Nothing /\ call'.fn = "render") => call'.self = call.self]_vars
    /\ []((call # Nothing /\ call.fn = "render") => render(call.self) = call.text)

\* ---------------------------------------------------------------------------
\* Construction of instruction steps
\* ---------------------------------------------------------------------------

\* ArgInstruction.__init__
ArgInstruction(name, default) == [class |-> "ArgInstruction", name |-> name, default |-> default]

\* EnvInstruction.__init__
EnvInstruction(name, value) == [class |-> "EnvInstruction", name |-> name, value |-> value]

\* ExposeInstruction.__init__
ExposeInstruction(port) == [class |-> "ExposeInstruction", port |-> port]

\* the most lines a builder of constructed steps is given
MaxStepLines == 2

\* image names and variable names handed to the constructors
ImageArguments == {"ubuntu:24.04", "", None}
NameArguments == {"LANG", "", None}

\* ports handed to ExposeInstruction: an int, a str, None
PortArguments == {[int |-> 8080], [str |-> "http"], Nothing}

InitSteps == InitBuilder

\* call: the step just constructed, the builder, the steps applied to it and
\* the text of the last render
StepCall(fn, step, self, applied, text) == [fn |-> fn, step |-> step, self |-> self, applied |-> applied, text |-> text]

NoStepCall == StepCall("", Nothing, Nothing, <<>>, None)

StepCallOrNone == IF call = Nothing THEN NoStepCall ELSE call

\* a constructor returned: the new step next to the builder as it is
Constructed(instruction) ==
    StepCall(instruction.class, instruction, StepCallOrNone.self, StepCallOrNone.applied, None)

NewFromInstruction ==
    /\ \E image \in ImageArguments : call' = Constructed(FromInstruction(image))
    /\ BuilderFrame

NewArgInstruction ==
    /\ \E name \in NameArguments : call' = Constructed(ArgInstruction(name, None))
    /\ BuilderFrame

NewEnvInstruction ==
    /\ \E name \in NameArguments : call' = Constructed(EnvInstruction(name, "C.UTF-8"))
    /\ BuilderFrame

NewExposeInstruction ==
    /\ \E port \in PortArguments : call' = Constructed(ExposeInstruction(port))
    /\ BuilderFrame

\* DockerfileBuilder(step)
NewBuilder ==
    /\ call # Nothing
    /\ call.step # Nothing
    /\ call.self = Nothing
    /\ call' = StepCall("__init__", Nothing, DockerfileBuilder(call.step, <<>>, None), <<call.step>>, None)
    /\ BuilderFrame

\* builder.add(step)
ApplyStep ==
    /\ call # Nothing
    /\ call.step # Nothing
    /\ call.self # Nothing
    /\ Lines(call.self) < MaxStepLines
    /\ call' = StepCall("add", Nothing, add(call.self, call.step), Append(call.applied, call.step), None)
    /\ BuilderFrame

\* builder.render()
RenderSteps ==
    /\ call # Nothing
    /\ call.self # Nothing
    /\ call' = StepCall("render", call.step, call.self, call.applied, render(call.self))
    /\ BuilderFrame

NextSteps ==
    \/ NewFromInstruction
    \/ NewArgInstruction
    \/ NewEnvInstruction
    \/ NewExposeInstruction
    \/ NewBuilder
    \/ ApplyStep
    \/ RenderSteps

SpecSteps == InitSteps /\ [][NextSteps]_vars

\* the data of a step has the structure its Dockerfile line needs
StructurallyValid(instruction) ==
    CASE instruction.class = "FromInstruction" -> instruction.image \notin {None, ""}
      [] instruction.class = "ArgInstruction" -> instruction.name \notin {None, ""}
      [] instruction.class = "EnvInstruction" -> instruction.name \notin {None, ""}
      [] instruction.class = "ExposeInstruction" ->
            instruction.port # Nothing /\ "int" \in DOMAIN instruction.port

\* C22 (as stated): a step with structurally invalid data is not constructed:
\* every step that exists, and every step that was applied to a builder or
\* rendered, is structurally valid.
C22_InvalidStepsRejected ==
    call # Nothing =>
        /\ call.step # Nothing => StructurallyValid(call.step)
        /\ \A i \in 1..Len(call.applied) : StructurallyValid(call.applied[i])

\* what the code does: every constructor succeeds, and render gives the line
\* of every applied step, valid or not
C22_InvalidStepsRendered ==
    (call # Nothing /\ call.fn = "render") =>
        call.text = Join([i \in 1..Len(call.applied) |-> InstructionStr(call.applied[i]) \o "\n"])

\* ---------------------------------------------------------------------------
\* Calls of extract_os_version_from_runtime and get_python_versions_from_runtime
\* ---------------------------------------------------------------------------

\* the most whitespace-separated tokens of an operating_system string
MaxOsTokens == 2

\* the tokens operating_system strings are made of
OsTokens == {"Ubuntu", "ubuntu-jammy", "Debian", "22.04.3", "24.04", "20.4", "LTS", "v1.x", "12", "22.04,"}

\* the operating_system strings of the release notes: empty, blank, or tokens
OsStrings == {JoinWith(l, " ") : l \in ListsOf(OsTokens, MaxOsTokens)} \cup {" ", "Ubuntu  22.04.5 "}

\* the python_version strings of the release notes
PythonStrings == {"", "3.12.3", "3.10", "3", "N/A", " ", "3.11.0rc1", "Python 3.9.5", " 3.9.5 ", "3."}

InitVersions ==
    /\ args = Nothing
    /\ engine = RuntimeContainerEngine("data", NoCount, None, TRUE)
    /\ registry = None
    /\ phase = "Init"
    /\ \E os \in OsStrings, python \in PythonStrings :
        runtimes = <<parse_runtime(Release("17.3 LTS", 5, TRUE, FALSE, os, python))[1]>>
    /\ built = 0
    /\ all_generated_files = <<>>
    /\ files = NoFiles
    /\ exit_code = NoExit
    /\ written = {}
    /\ failed = {}
    /\ trace = <<"Init">>
    /\ summary_writes = 0
    /\ call = Nothing

\* engine.extract_os_version_from_runtime(runtime)
CallExtractOsVersionFromRuntime ==
    /\ call = Nothing
    /\ call' = [fn |-> "extract_os_version_from_runtime",
                runtime |-> runtimes[1],
                result |-> extract_os_version_from_runtime(runtimes[1])]
    /\ UNCHANGED <<args, engine, registry, phase, runtimes, built, all_generated_files, files,
                   exit_code, written, failed, trace, summary_writes>>

\* engine.get_python_versions_from_runtime(runtime).python
CallGetPythonVersionsFromRuntime ==
    /\ call = Nothing
    /\ call' = [fn |-> "get_python_versions_from_runtime",
                runtime |-> runtimes[1],
                result |-> get_python_versions_from_runtime(runtimes[1])]
    /\ UNCHANGED <<args, engine, registry, phase, runtimes, built, all_generated_files, files,
                   exit_code, written, failed, trace, summary_writes>>

NextVersions == CallExtractOsVersionFromRuntime \/ CallGetPythonVersionsFromRuntime

SpecVersions == InitVersions /\ [][NextVersions]_vars

\* a token of the form <int>.<int>[.<rest>]
DottedNumeric(token) ==
    LET fields == SplitOn(token, ".")
    IN  Len(fields) >= 2 /\ IsInt(fields[1]) /\ IsInt(fields[2])

\* the major.minor of a dotted numeric token, the minor on two digits
MajorMinor(token) ==
    LET fields == SplitOn(token, ".")
    IN  IntToStr(ParseInt(fields[1])) \o "." \o Format02d(ParseInt(fields[2]))

OsCalled == call # Nothing /\ call.fn = "extract_os_version_from_runtime"

\* C23: extract_os_version_from_runtime never fails, whatever the OS string:
\* it returns the major.minor of the first dotted numeric token when the string
\* names Ubuntu and has such a token, and the default 24.04 otherwise.
C23_OsVersionTotal ==
    OsCalled =>
        LET os == call.runtime.system_environment.operating_system
            tokens == SelectSeq(SplitWs(Lower(os)), DottedNumeric)
        IN  /\ call.result # Raised
            /\ call.result = IF Contains(Lower(os), "ubuntu") /\ tokens # <<>>
                             THEN MajorMinor(tokens[1])
                             ELSE "24.04"

\* the call returned for a string that names Ubuntu and whose first dotted
\* token is not numeric
C23_Witness ==
    /\ OsCalled
    /\ call.runtime.system_environment.operating_system = "ubuntu-jammy v1.x"
    /\ call.result = "24.04"

PythonCalled == call # Nothing /\ call.fn = "get_python_versions_from_runtime"

\* a string of the form <int>.<int>
IsMajorMinor(s) ==
    LET fields == SplitOn(s, ".")
    IN  s # Raised /\ Len(fields) = 2 /\ IsInt(fields[1]) /\ IsInt(fields[2])

\* the first token of the string is a dotted version: <int>.<int>[.<rest>]
ParsesAsDottedVersion(python_version) ==
    SplitWs(python_version) # <<>> /\ DottedNumeric(SplitWs(python_version)[1])

\* C24 (as stated): get_python_versions_from_runtime never fails and returns a
\* major.minor version: the one of the string when it is a dotted version, and
\* the default 3.12 when the string is empty or cannot be parsed as one.
C24_PythonVersionNormalized ==
    PythonCalled =>
        LET python_version == call.runtime.system_environment.python_version
        IN  /\ call.result # Raised
            /\ IsMajorMinor(call.result)
            /\ ~ParsesAsDottedVersion(python_version) => call.result = "3.12"

\* what the code does: 3.12 for the empty string only, the major.minor of a
\* first token that is a dotted version, an exception for a blank string, and
\* otherwise the first token with at most its first two dot-separated fields
C24_PythonVersionOfFirstToken ==
    PythonCalled =>
        LET python_version == call.runtime.system_environment.python_version
            tokens == SplitWs(python_version)
        IN  /\ python_version = "" => call.result = "3.12"
            /\ (python_version # "" /\ tokens = <<>>) => call.result = Raised
            /\ ParsesAsDottedVersion(python_version) =>
                    /\ IsMajorMinor(call.result)
                    /\ StartsWith(tokens[1], call.result)
            /\ (tokens # <<>> /\ ~Contains(tokens[1], ".")) => call.result = tokens[1]

\* ---------------------------------------------------------------------------
\* The targeted build of a runtime-specific image type
\* ---------------------------------------------------------------------------

\* a --image-type build of a runtime-specific image type has returned
TargetedBuildEnded ==
    /\ args # Nothing
    /\ phase = "Exited"
    /\ args.image_type # None
    /\ IsRuntimeSpecific(engine.image_types, args.image_type)

\* the runtimes of the catalog the targeted build generated the image type for
TargetedRuntimes ==
    {k \in 1..Len(runtimes) :
        /\ args.runtime_version # None => k = IndexOfVersion(runtimes, args.runtime_version)
        /\ ~get_runtime_variations_raises(runtimes[k])}

\* the three files of runtime k with the variation the runtime derives
WithDerivedVariation(k) ==
    RuntimeImageSteps(engine, args.registry, runtimes[k], args.image_type, get_runtime_variations(runtimes[k])[1])

\* the directory of a file
Parent(path) ==
    LET cut == CHOOSE i \in 0..Len(path) :
                   /\ i > 0 => CharAt(path, i) = "/"
                   /\ \A j \in (i + 1)..Len(path) : CharAt(path, j) # "/"
    IN  IF cut <= 1 THEN "" ELSE SubSeq(path, 1, cut - 1)

\* the Dockerfile the targeted build wrote for runtime k: the files are those
\* of TargetedWrites
TargetedDockerfile(k) ==
    RuntimeImageSteps(engine, args.registry, runtimes[k], args.image_type, Nothing).dockerfile

\* C25 (as stated): a runtime-specific image type generated without a variation
\* has the base reference, the python version, the requirements path and the
\* artifact directory it has when the first variation of the runtime is passed.
C25_FallbackToDerivedVariation ==
    TargetedBuildEnded =>
        \A k \in TargetedRuntimes :
            LET explicit == WithDerivedVariation(k).dockerfile
                fallback == TargetedDockerfile(k)
            IN  /\ <<k, fallback.path>> \in written
                /\ files[fallback.path] = fallback.content
                /\ fallback.content.base_image = explicit.content.base_image
                /\ fallback.content.python_version = explicit.content.python_version
                /\ fallback.content.requirements_path = explicit.content.requirements_path
                /\ Parent(fallback.path) = Parent(explicit.path)

\* what the code does: the base reference and the python version are those of
\* the derived variation, but the artifact directory and the requirements path
\* are named after the runtime alone, without the suffix of the variation
C25_FallbackDirectoryWithoutSuffix ==
    TargetedBuildEnded =>
        \A k \in TargetedRuntimes :
            LET explicit == WithDerivedVariation(k).dockerfile
                fallback == TargetedDockerfile(k)
                variation == get_runtime_variations(runtimes[k])[1]
                directory == PathJoin(PathJoin(engine.data_dir, args.image_type),
                                 sanitize_runtime_version(runtimes[k].version)
                                     \o (IF runtimes[k].is_ml THEN "-ml" ELSE ""))
            IN  /\ <<k, fallback.path>> \in written
                /\ files[fallback.path] = fallback.content
                /\ fallback.content.base_image = explicit.content.base_image
                /\ fallback.content.python_version = explicit.content.python_version
                /\ Parent(fallback.path) = directory
                /\ fallback.content.requirements_path = PathJoin(directory, "requirements.txt")
                /\ Parent(explicit.path) # directory

\* ---------------------------------------------------------------------------
\* The runtime counts of the summary and of the command
\* ---------------------------------------------------------------------------

\* total_runtimes = len(result), cli.py line 166
CliTotalRuntimes(result) == Len(result)

\* successful_runtimes, cli.py lines 169-171
CliSuccessfulRuntimes(result) ==
    Cardinality({i \in 1..Len(result) :
                    \E t \in DOMAIN result[i].value : result[i].value[t] # <<>>})

\* the full build run has written its summary
SummaryWritten == FullBuild /\ phase \in {"WriteSummary", "Done"}

\* the runtimes of the run for which at least one artifact was generated
RuntimesWithArtifacts == {k \in 1..Len(runtimes) : \E w \in written : w[1] = k}

C26_CountsIncludeNonRuntimeSpecific ==
    SummaryWritten =>
        /\ SummaryDocument.total_runtimes = Len(runtimes) + 1
        /\ CliTotalRuntimes(all_generated_files) = Len(runtimes) + 1
        /\ CliSuccessfulRuntimes(all_generated_files) <= Cardinality(RuntimesWithArtifacts) + 1

\* ---------------------------------------------------------------------------
\* From the build run to the build matrix
\* ---------------------------------------------------------------------------

\* the artifact paths the summary holds for image type t of the k-th runtime
RecordedInSummary(k, t) ==
    LET details == MatrixSummary.build_details
        at == {i \in 1..Len(details) : details[i].key = runtime_key(runtimes[k])}
    IN  IF at = {} THEN <<>>
        ELSE LET value == details[CHOOSE i \in at : TRUE].value
             IN  IF t \in DOMAIN value THEN value[t] ELSE <<>>

\* the entries of the matrix for image type t of the k-th runtime
EntriesOfRuntime(k, t) ==
    {e \in {call.result.include[i] : i \in 1..Len(call.result.include)} :
        /\ e.runtime = runtimes[k].version
        /\ e.image_type = t
        /\ e.variant = (IF runtimes[k].is_ml THEN ".ml" ELSE "")}

\* the directory name of a recorded path starts with the runtime version, so
\* that the suffix is what follows it and the regular expression is not used
PrefixStripped(k, first_file) ==
    LET parts == SplitOn(first_file, "/")
    IN  /\ Len(parts) >= 3
        /\ StartsWith(parts[3], Replace(runtimes[k].version, " ", "-"))

UbuntuVersionOf(dockerfile) ==
    IF dockerfile.ubuntu_version = None THEN "24.04" ELSE dockerfile.ubuntu_version

\* the image types that are not runtime-specific
NonRuntimeSpecific == {t \in DOMAIN engine.image_types : ~engine.image_types[t].runtime_specific}

\* the Dockerfiles of image type t under an ubuntu<NNNN> directory
OsSpecificPaths(t) ==
    {p \in DOMAIN files :
        /\ StartsWith(p, PathJoin(PathJoin(engine.data_dir, t), "ubuntu"))
        /\ EndsWith(p, "/Dockerfile")}

\* the full build run is past BuildNonRuntimeSpecific
PastNonRuntimeSpecific ==
    FullBuild /\ phase \in {"BuildNonRuntimeSpecific", "BuildRuntime", "WriteSummary", "Done"}

C28_LatestReplacedWhenForced2404 ==
    PastNonRuntimeSpecific =>
        \A t \in NonRuntimeSpecific :
            /\ (LatestPath(t) \in DOMAIN files /\ engine.force_ubuntu_version # "24.04") =>
                   UbuntuVersionOf(files[LatestPath(t)]) = "24.04"
            /\ (LatestPath(t) \in DOMAIN files /\ engine.force_ubuntu_version = "24.04") =>
                   UbuntuVersionOf(files[LatestPath(t)]) \in
                       {"24.04"} \cup {get_runtime_variations(runtimes[k])[1].os_version :
                                          k \in 1..built}
            /\ \A p \in OsSpecificPaths(t) :
                   p = PathJoin(PathJoin(PathJoin(engine.data_dir, t),
                                         OsDirName(UbuntuVersionOf(files[p]))), "Dockerfile")

\* ---------------------------------------------------------------------------
\* The order of the generations
\* ---------------------------------------------------------------------------

Attempt(who, image_type) == [who |-> who, image_type |-> image_type]

\* the generations of the build of a runtime, in order: for each variation the
\* base image types built for its OS version, then each runtime-specific image
\* type for each variation
AttemptsFor(who, variations, base_types, types) ==
    Flatten([v \in 1..Len(variations) |->
                [i \in 1..Len(base_types) |-> Attempt(who, base_types[i])]])
    \o Flatten([i \in 1..Len(types) |->
                   [v \in 1..Len(variations) |-> Attempt(who, types[i])]])

\* the generations the build of the k-th runtime attempts, in order
AttemptsOfRuntime(k) ==
    CHOOSE attempts \in
        {AttemptsFor(k, variations,
                     SelectSeq(<<"minimal", "minimal-gpu", "standard", "standard-gpu">>,
                               LAMBDA t : t \in BaseTypesBuiltFor(engine, variations[1])),
                     RuntimeSpecificTypes(engine.image_types)) :
            variations \in {get_runtime_variations(runtimes[k])}} : TRUE

\* the generations of build_non_runtime_specific_images, in order
AttemptsOfNonRuntimeSpecific ==
    LET types == NonRuntimeTypes(engine.image_types)
    IN  [i \in 1..Len(types) |-> Attempt(0, types[i])]

\* a generating step of a full build run has just ended
JustGenerated == FullBuild /\ phase \in {"BuildNonRuntimeSpecific", "BuildRuntime"}

\* the generations of the run up to the step that has just ended, in order:
\* those of build_non_runtime_specific_images, then (the builds of the runtimes
\* before, then) those of the runtime built last
AttemptsOfRun ==
    AttemptsOfNonRuntimeSpecific
    \o (IF built >= 1 THEN AttemptsOfRuntime(built) ELSE <<>>)

\* the generations of these steps seen in the run through a Dockerfile they
\* wrote
DockerfilesSeen ==
    {Attempt(w[1], files[w[2]].image_type) :
        w \in {x \in written : x[1] \in {0, built} /\ files[x[2]].kind = "dockerfile"}}

PastRuntimeLoop ==
    /\ FullBuild
    /\ runtimes # <<>>
    /\ built = Len(runtimes)
    /\ phase \in {"WriteSummary", "Done", "Crashed"}

C30_SummaryNeedsDataDirBelowRoot ==
    PastRuntimeLoop =>
        LET below == ~relative_to_raises(Absolute(engine.data_dir), engine.workspace_root)
        IN  /\ (below \/ AllGeneratedPaths(all_generated_files) = {}) =>
                  /\ phase # "Crashed"
                  /\ SummaryPath(engine) \in DOMAIN files
            /\ (~below /\ AllGeneratedPaths(all_generated_files) # {}) =>
                  /\ phase = "Crashed"
                  /\ SummaryPath(engine) \notin DOMAIN files

====
